---------------------------- MODULE Spec2Model ----------------------------
(***************************************************************************)
(* Social Masonry: the layout engine (src/src/layout-engine.ts) and the    *)
(* helpers of src/src/utils.ts it calls, as a state machine.               *)
(*                                                                         *)
(* A LayoutEngine object is the state: its options (fixed at construction, *)
(* except containerWidth and the entries of itemHeights) and its stored    *)
(* LayoutState.  Every method is one action: JavaScript runs a method to   *)
(* completion, so no other call interleaves with the loop of calculate.    *)
(*                                                                         *)
(* Numbers.  Pixel quantities the caller supplies (gap, padding, widths,   *)
(* heights, column counts) are integers here.  What calculate derives from *)
(* them by a division (columnWidth, x) is an exact fraction, and the       *)
(* non-finite results of JavaScript arithmetic are kept as values of their *)
(* own: Infinity, -Infinity, NaN and undefined.  The rounding of IEEE      *)
(* doubles is not modelled.                                                *)
(***************************************************************************)
EXTENDS Integers, Sequences, FiniteSets, TLC

(***************************************************************************)
(* Bounds of the model.                                                    *)
(***************************************************************************)
\* The longest post list handed to calculate.
MaxPosts == 3
\* Heights in the itemHeights Map range over 0..MaxHeight.
MaxHeight == 1
\* The longest breakpoint list drawn from the breakpoint universe.
MaxBreakpoints == 3
\* The calls made to a debounced function from outside, and how far the
\* clock runs.
MaxCalls == 3
MaxTime == 6
\* The state updates a component can have queued when it renders.
MaxPending == 3
\* The calls of the script loaders.
MaxLoads == 4

(***************************************************************************)
(* Program constants.                                                      *)
(***************************************************************************)
DEFAULT_TWITTER_HEIGHT == 500
DEFAULT_INSTAGRAM_HEIGHT == 600

(***************************************************************************)
(* JavaScript numbers: [t, n, d] is the fraction n/d (d > 0, in lowest     *)
(* terms) when t = "fin"; the other tags are the values no fraction names. *)
(***************************************************************************)
Abs(i) == IF i < 0 THEN -i ELSE i

RECURSIVE Gcd(_, _)
Gcd(a, b) == IF b = 0 THEN a ELSE Gcd(b, a % b)

Rat(n, d) ==
    LET g == Gcd(Abs(n), Abs(d))
        s == IF d < 0 THEN -1 ELSE 1
    IN  [t |-> "fin", n |-> (s * n) \div g, d |-> (s * d) \div g]

Fin(i) == [t |-> "fin", n |-> i, d |-> 1]
NaN == [t |-> "nan", n |-> 0, d |-> 1]
PosInfinity == [t |-> "inf", n |-> 1, d |-> 1]
NegInfinity == [t |-> "inf", n |-> -1, d |-> 1]
Undefined == [t |-> "undefined", n |-> 0, d |-> 1]

IsFin(v) == v.t = "fin"
IsInt(v) == v.t = "fin" /\ v.d = 1
Sign(i) == IF i > 0 THEN 1 ELSE IF i < 0 THEN -1 ELSE 0

\* a + b.  undefined converts to NaN; Infinity + -Infinity is NaN.
JsAdd(a, b) ==
    IF a.t \in {"nan", "undefined"} \/ b.t \in {"nan", "undefined"} THEN NaN
    ELSE IF a.t = "inf" /\ b.t = "inf" THEN (IF a.n = b.n THEN a ELSE NaN)
    ELSE IF a.t = "inf" THEN a
    ELSE IF b.t = "inf" THEN b
    ELSE Rat(a.n * b.d + b.n * a.d, a.d * b.d)

\* a * b.  0 * Infinity is NaN.
JsMul(a, b) ==
    IF a.t \in {"nan", "undefined"} \/ b.t \in {"nan", "undefined"} THEN NaN
    ELSE IF a.t = "inf" \/ b.t = "inf"
         THEN (IF a.n = 0 \/ b.n = 0 THEN NaN
               ELSE IF Sign(a.n) * Sign(b.n) > 0 THEN PosInfinity ELSE NegInfinity)
    ELSE Rat(a.n * b.n, a.d * b.d)

\* a < b for numbers that are not NaN.
JsLess(a, b) ==
    IF a.t = "inf" THEN a.n < 0 /\ a # b
    ELSE IF b.t = "inf" THEN b.n > 0
    ELSE a.n * b.d < b.n * a.d

\* Math.min(a, b): NaN when either is NaN.
JsMin(a, b) ==
    IF a.t \in {"nan", "undefined"} \/ b.t \in {"nan", "undefined"} THEN NaN
    ELSE IF JsLess(b, a) THEN b ELSE a

\* a / b for integers a and b.  Division by zero does not throw.
JsDiv(a, b) ==
    IF b = 0
    THEN (IF a > 0 THEN PosInfinity ELSE IF a < 0 THEN NegInfinity ELSE NaN)
    ELSE Rat(a, b)

(***************************************************************************)
(* Strings.  A URL is a sequence of one-character strings, so that the     *)
(* patterns of utils.ts can be matched against it and its characters       *)
(* hashed; an identifier is a string.                                      *)
(***************************************************************************)
Digits == << "0", "1", "2", "3", "4", "5", "6", "7", "8", "9" >>
Lower == << "a", "b", "c", "d", "e", "f", "g", "h", "i", "j", "k", "l", "m",
            "n", "o", "p", "q", "r", "s", "t", "u", "v", "w", "x", "y", "z" >>
Upper == << "A", "B", "C", "D", "E", "F", "G", "H", "I", "J", "K", "L", "M",
            "N", "O", "P", "Q", "R", "S", "T", "U", "V", "W", "X", "Y", "Z" >>
Range(seq) == {seq[i] : i \in 1 .. Len(seq)}
IndexIn(seq, c) == CHOOSE i \in 1 .. Len(seq) : seq[i] = c

\* The character classes \d, \w and [A-Za-z0-9_-]
DigitChars == Range(Digits)
WordChars == Range(Digits) \cup Range(Lower) \cup Range(Upper) \cup {"_"}
ShortcodeChars == WordChars \cup {"-"}

\* str.charCodeAt(i), for the characters URLs are written in here.
CharCode(c) ==
    IF c \in Range(Digits) THEN 47 + IndexIn(Digits, c)
    ELSE IF c \in Range(Upper) THEN 64 + IndexIn(Upper, c)
    ELSE IF c \in Range(Lower) THEN 96 + IndexIn(Lower, c)
    ELSE IF c = "-" THEN 45
    ELSE IF c = "." THEN 46
    ELSE IF c = "/" THEN 47
    ELSE IF c = ":" THEN 58
    ELSE IF c = "?" THEN 63
    ELSE 95

\* The string a sequence of characters spells.
RECURSIVE Str(_)
Str(chars) == IF chars = << >> THEN "" ELSE chars[1] \o Str(Tail(chars))

\* Whether the literal lit stands in url at position p (from 1).
Literal(url, p, lit) ==
    /\ p + Len(lit) - 1 <= Len(url)
    /\ \A i \in 1 .. Len(lit) : url[p + i - 1] = lit[i]

\* The length of the longest run of characters of a class from position p:
\* what a greedy + or * takes.
RECURSIVE Run(_, _, _)
Run(url, p, class) ==
    IF p <= Len(url) /\ url[p] \in class THEN 1 + Run(url, p + 1, class) ELSE 0

TwitterCom == << "t", "w", "i", "t", "t", "e", "r", ".", "c", "o", "m" >>
XCom == << "x", ".", "c", "o", "m" >>
InstagramCom == << "i", "n", "s", "t", "a", "g", "r", "a", "m", ".", "c", "o", "m" >>
SlashStatusSlash == << "/", "s", "t", "a", "t", "u", "s", "/" >>
Slash == << "/" >>
Reel == << "r", "e", "e", "l" >>

\* /(?:twitter\.com|x\.com)\/\w+\/status\/(\d+)/ tried at position p with
\* the given host: the capture, or << >> when there is no match.  No
\* character of \w is "/", so the greedy \w+ never has to give back.
StatusAt(url, p, host) ==
    LET q == p + Len(host)
        handle == Run(url, q + 1, WordChars)
        r == q + 1 + handle
        d == r + Len(SlashStatusSlash)
        digits == Run(url, d, DigitChars)
    IN  IF /\ Literal(url, p, host)
           /\ Literal(url, q, Slash)
           /\ handle >= 1
           /\ Literal(url, r, SlashStatusSlash)
           /\ digits >= 1
        THEN SubSeq(url, d, d + digits - 1)
        ELSE << >>

\* /instagram\.com\/(?:p|reel)\/([A-Za-z0-9_-]+)/ tried at position p with
\* the given kind.
ShortcodeAt(url, p, kind) ==
    LET q == p + Len(InstagramCom)
        r == q + 1 + Len(kind)
        code == Run(url, r + 1, ShortcodeChars)
    IN  IF /\ Literal(url, p, InstagramCom)
           /\ Literal(url, q, Slash)
           /\ Literal(url, q + 1, kind)
           /\ Literal(url, r, Slash)
           /\ code >= 1
        THEN SubSeq(url, r + 1, r + code)
        ELSE << >>

\* String.prototype.match without the g flag: the leftmost position where
\* the pattern matches, the first alternative first.
RECURSIVE SearchStatus(_, _)
SearchStatus(url, p) ==
    IF p > Len(url) THEN << >>
    ELSE IF StatusAt(url, p, TwitterCom) # << >> THEN StatusAt(url, p, TwitterCom)
    ELSE IF StatusAt(url, p, XCom) # << >> THEN StatusAt(url, p, XCom)
    ELSE SearchStatus(url, p + 1)

RECURSIVE SearchShortcode(_, _)
SearchShortcode(url, p) ==
    IF p > Len(url) THEN << >>
    ELSE IF ShortcodeAt(url, p, << "p" >>) # << >> THEN ShortcodeAt(url, p, << "p" >>)
    ELSE IF ShortcodeAt(url, p, Reel) # << >> THEN ShortcodeAt(url, p, Reel)
    ELSE SearchShortcode(url, p + 1)

\* match[1], or null (<< >> here); an empty url gives null.
extractTweetId(url) == IF url = << >> THEN << >> ELSE SearchStatus(url, 1)

extractInstagramId(url) == IF url = << >> THEN << >> ELSE SearchShortcode(url, 1)

\* Number.prototype.toString(36) of a non-negative integer.
RECURSIVE Base36(_)
Base36(i) ==
    LET digit == IF i % 36 < 10 THEN Digits[(i % 36) + 1] ELSE Lower[(i % 36) - 9]
    IN  IF i < 36 THEN digit ELSE Base36(i \div 36) \o digit

\* A 32-bit integer is kept as its two 16-bit halves, [hi, lo], the bits
\* of its two's complement form.
Half == 65536
Int32(hi, lo) == [hi |-> hi, lo |-> lo]
IsNegative(h) == h.hi >= Half \div 2

\* -h, modulo 2^32.
Negate(h) ==
    Int32((Half - 1 - h.hi + (IF h.lo = 0 THEN 1 ELSE 0)) % Half, (Half - h.lo) % Half)

\* hash = ((hash << 5) - hash) + char; hash = hash & hash: 31 * hash + char
\* modulo 2^32.
HashStep(h, char) ==
    LET lo == h.lo * 31 + char
    IN  Int32((h.hi * 31 + lo \div Half) % Half, lo % Half)

\* The loop of hashString.  (The test on next.lo is always true; it has the
\* value computed before the next iteration starts.)
RECURSIVE HashFrom(_, _, _)
HashFrom(str, i, hash) ==
    IF i > Len(str) THEN hash
    ELSE LET next == HashStep(hash, CharCode(str[i]))
         IN  IF next.lo >= 0 THEN HashFrom(str, i + 1, next) ELSE next

\* Math.abs(hash).toString(36); Math.abs(-2^31) is 2^31, "zik0zk".
hashString(str) ==
    LET hash == HashFrom(str, 1, Int32(0, 0))
        abs == IF IsNegative(hash) THEN Negate(hash) ELSE hash
    IN  IF IsNegative(abs) THEN "zik0zk" ELSE Base36(abs.hi * Half + abs.lo)

(***************************************************************************)
(* Posts (types.ts: SocialPost).  id = "" is a post without explicit id    *)
(* (post.id is falsy).  An id of "" passed explicitly is falsy too: the    *)
(* posts handed to generatePostId directly carry a field given that tells  *)
(* the two apart, which the code cannot.                                   *)
(***************************************************************************)
Platforms == {"twitter", "instagram"}

\* The explicit id not looked at.
generatePostId_AlwaysDerived(post) ==
    IF post.platform = "twitter"
    THEN (IF extractTweetId(post.url) # << >>
          THEN "tw-" \o Str(extractTweetId(post.url))
          ELSE "tw-" \o hashString(post.url))
    ELSE (IF extractInstagramId(post.url) # << >>
          THEN "ig-" \o Str(extractInstagramId(post.url))
          ELSE "ig-" \o hashString(post.url))

\* The URL always hashed.
generatePostId_AlwaysHash(post) ==
    IF post.id # "" THEN post.id
    ELSE IF post.platform = "twitter" THEN "tw-" \o hashString(post.url)
    ELSE "ig-" \o hashString(post.url)

generatePostId(post) ==
    IF post.id # "" THEN post.id
    ELSE IF post.platform = "twitter"
         THEN (IF extractTweetId(post.url) # << >>
               THEN "tw-" \o Str(extractTweetId(post.url))
               ELSE "tw-" \o hashString(post.url))
    ELSE IF post.platform = "instagram"
         THEN (IF extractInstagramId(post.url) # << >>
               THEN "ig-" \o Str(extractInstagramId(post.url))
               ELSE "ig-" \o hashString(post.url))
    ELSE "post-" \o hashString(post.url)

(***************************************************************************)
(* Column specifications (types.ts: number | ColumnConfig[]).              *)
(***************************************************************************)
Number(n) == [kind |-> "number", n |-> n, list |-> << >>]
Breakpoints(list) == [kind |-> "list", n |-> 0, list |-> list]
Bp(columns, minWidth) == [columns |-> columns, minWidth |-> minWidth]

defaultColumnConfig == << Bp(4, 1200), Bp(3, 900), Bp(2, 600), Bp(1, 0) >>

\* Array.prototype.sort with (a, b) => b.minWidth - a.minWidth: stable,
\* descending by minWidth.  Insert puts config after every entry that is
\* not smaller, so equal entries keep their order.
RECURSIVE Insert(_, _)
Insert(sorted, config) ==
    IF sorted = << >> THEN << config >>
    ELSE IF Head(sorted).minWidth >= config.minWidth
         THEN << Head(sorted) >> \o Insert(Tail(sorted), config)
         ELSE << config >> \o sorted

RECURSIVE SortDescending(_)
SortDescending(list) ==
    IF list = << >> THEN << >>
    ELSE Insert(SortDescending(SubSeq(list, 1, Len(list) - 1)), list[Len(list)])

\* The for loop of getColumnCount: the first config the width reaches.
RECURSIVE FirstReached(_, _)
FirstReached(sorted, containerWidth) ==
    IF sorted = << >> THEN << >>
    ELSE IF containerWidth >= Head(sorted).minWidth THEN << Head(sorted) >>
    ELSE FirstReached(Tail(sorted), containerWidth)

\* The lower bound exclusive: containerWidth > config.minWidth.
RECURSIVE FirstAbove(_, _)
FirstAbove(sorted, containerWidth) ==
    IF sorted = << >> THEN << >>
    ELSE IF containerWidth > Head(sorted).minWidth THEN << Head(sorted) >>
    ELSE FirstAbove(Tail(sorted), containerWidth)

getColumnCount_Exclusive(columns, containerWidth) ==
    IF columns.kind = "number" THEN columns.n
    ELSE LET sorted == SortDescending(columns.list)
             hit == FirstAbove(sorted, containerWidth)
         IN  IF hit # << >> THEN hit[1].columns
             ELSE IF sorted # << >> THEN sorted[Len(sorted)].columns
             ELSE 1

\* A fixed count raised to at least 1.
getColumnCount_AtLeastOne(columns, containerWidth) ==
    IF columns.kind = "number" THEN (IF columns.n < 1 THEN 1 ELSE columns.n)
    ELSE LET sorted == SortDescending(columns.list)
             hit == FirstReached(sorted, containerWidth)
         IN  IF hit # << >> THEN hit[1].columns
             ELSE IF sorted # << >> THEN sorted[Len(sorted)].columns
             ELSE 1

\* 1 whenever no breakpoint is reached.
getColumnCount_FallbackOne(columns, containerWidth) ==
    IF columns.kind = "number" THEN columns.n
    ELSE LET sorted == SortDescending(columns.list)
             hit == FirstReached(sorted, containerWidth)
         IN  IF hit # << >> THEN hit[1].columns ELSE 1

getColumnCount(columns, containerWidth) ==
    IF columns.kind = "number" THEN columns.n
    ELSE LET sorted == SortDescending(columns.list)
             hit == FirstReached(sorted, containerWidth)
         IN  IF hit # << >> THEN hit[1].columns
             ELSE IF sorted # << >> THEN sorted[Len(sorted)].columns
             ELSE 1


(***************************************************************************)
(* The inputs the model draws from.                                        *)
(***************************************************************************)
\* A Map, or an options object, without entries.
EmptyMap == [x \in {} |-> 0]

Https == << "h", "t", "t", "p", "s", ":", "/", "/" >>
UserU == << "/", "u" >>

\* Two posts with explicit ids, one on each platform, and one post whose
\* id, "tw-1", is derived from its URL.
PostA ==
    [ id |-> "a", platform |-> "twitter",
      url |-> Https \o XCom \o UserU \o SlashStatusSlash \o << "7" >> ]
PostB ==
    [ id |-> "b", platform |-> "instagram",
      url |-> Https \o InstagramCom \o << "/", "p", "/", "B", "q" >> ]
PostT ==
    [ id |-> "", platform |-> "twitter",
      url |-> Https \o XCom \o UserU \o SlashStatusSlash \o << "1" >> ]
PostUniverse == {PostA, PostB, PostT}

\* generatePostId of every post of the universe, computed once.
PostIds == [post \in PostUniverse |-> generatePostId(post)]
PostId(post) == PostIds[post]
PostIds_All == {PostIds[post] : post \in PostUniverse}

RECURSIVE SeqsUpTo(_, _)
SeqsUpTo(S, n) ==
    IF n = 0 THEN {<< >>}
    ELSE LET shorter == SeqsUpTo(S, n - 1)
         IN  shorter \cup {Append(s, e) : s \in {t \in shorter : Len(t) = n - 1}, e \in S}

PostLists == SeqsUpTo(PostUniverse, MaxPosts)

\* The lists one engine is asked to lay out over its life: the windows of
\* one feed.
Feed == << PostT, PostB, PostA >>
FeedWindows == {SubSeq(Feed, i, j) : i \in 1 .. Len(Feed), j \in 0 .. Len(Feed)}

\* Identifiers updateItemHeight is called with, and the heights it reports.
HeightIds == {"a", "tw-1"}
Heights == 0 .. MaxHeight

HeightMaps ==
    UNION {[ids -> Heights] : ids \in SUBSET HeightIds}

Gaps == {-1, 0, 16}
Paddings == {0, 10}
ContainerWidths == {0, 600, 1000}
\* The embed heights the constructor is given: none, or both.
EmbedConfigs == { EmptyMap, [twitterHeight |-> 2, instagramHeight |-> 3] }

ColumnSpecs ==
    { Number(-1), Number(0), Number(1), Number(2), Number(3),
      Breakpoints(defaultColumnConfig),
      Breakpoints(<< >>),
      Breakpoints(<< Bp(2, 600), Bp(3, 900) >>) }

(***************************************************************************)
(* State.                                                                  *)
(*   options   this.options: gap, padding, columns, twitterHeight,         *)
(*             instagramHeight, containerWidth and the itemHeights Map (a  *)
(*             function from the identifiers that have an entry).          *)
(*   state     this.state, the stored LayoutState.  columnHeights is the   *)
(*             array (arr, index i of the code is arr[i+1]) together with  *)
(*             its property "-1" (neg1), which calculate writes when there *)
(*             are no columns; Undefined when the property is absent.      *)
(*   outcome   how the most recent calculate call ended: "none" before the *)
(*             first call, "returned" or "threw".                          *)
(*   returned  the LayoutState the most recent returning calculate gave    *)
(*             its caller.                                                 *)
(*   calcArgs  the post list, height map and container width the most      *)
(*             recent calculate call ran on, and whether the call before   *)
(*             it ran on the same.                                         *)
(*   trace     one record per iteration of the loop of the most recent     *)
(*             calculate: the post's identifier and height, the column     *)
(*             chosen, the offsets, and the running heights before and     *)
(*             after the iteration.                                        *)
(*   lastSet   for every identifier, the height most recently passed to    *)
(*             updateItemHeight (or present at construction).              *)
(*   widthGiven  the container width most recently given to the engine, at *)
(*             construction or by setContainerWidth.                       *)
(*   earlier   a LayoutState object a caller has kept from an earlier      *)
(*             calculate: whether there is one (held), its contents when   *)
(*             it was returned (was) and its contents now (now).           *)
(*   embedGiven  the twitterHeight and instagramHeight properties of the   *)
(*             options object the constructor was given (a function from   *)
(*             the properties present).                                    *)
(*   call      a call of one of the functions of utils.ts, or of the       *)
(*             component's calculateLayout: the function, its arguments,   *)
(*             whether it has returned, and what it returned; whether it   *)
(*             has been made again on the same arguments, and what it had  *)
(*             returned before.                                            *)
(*   debounced  a function debounce(fn, delay) returned, with the clock:   *)
(*             fn and delay, the closure's timeoutId (0 for null), the     *)
(*             timers set and not yet run or cleared, the time now, and    *)
(*             the calls and the invocations of fn so far.                 *)
(*   component  a mounted SocialMasonry component (the inline-layout       *)
(*             version): its props and state, the layout of its last       *)
(*             render, and the state updates queued since.                 *)
(*   loader    the widget script loader of the component's module: the     *)
(*             two module flags, the window globals, the script elements   *)
(*             in document.head and the promises handed out.               *)
(***************************************************************************)
VARIABLES options, state, outcome, returned, calcArgs, trace, lastSet,
          earlier, widthGiven, embedGiven, call, debounced, component, loader

vars ==
    << options, state, outcome, returned, calcArgs, trace, lastSet,
       earlier, widthGiven, embedGiven, call, debounced, component, loader >>

\* What lies outside the engine and the utility calls.
others == << debounced, component, loader >>

engine ==
    << options, state, outcome, returned, calcArgs, trace, lastSet,
       earlier, widthGiven, embedGiven >>

NoCall ==
    [ fn |-> "none", args |-> << >>, done |-> FALSE, result |-> 0,
      again |-> FALSE, before |-> 0 ]

\* No debounced function has been made, no component is mounted and the
\* module of the component has not been loaded.
NoDebounce == [ made |-> FALSE ]
NoComponent == [ mounted |-> FALSE ]
NoLoader == [ loaded |-> FALSE ]
OthersIdle ==
    /\ debounced = NoDebounce
    /\ component = NoComponent
    /\ loader = NoLoader

\* layout-engine.ts, constructor: the initial LayoutState.
InitialState ==
    [ positions |-> EmptyMap,
      columnHeights |-> [arr |-> << >>, neg1 |-> Undefined],
      containerHeight |-> 0,
      columnWidth |-> Fin(0) ]

\* itemHeights.get(postId) ?? this.getDefaultHeight(post)
getDefaultHeight(post) ==
    IF post.platform = "twitter" THEN options.twitterHeight
    ELSE IF post.platform = "instagram" THEN options.instagramHeight
    ELSE DEFAULT_TWITTER_HEIGHT

\* || in place of ??: an entry of 0 gives way to the default.
ResolveHeight_OrDefault(post, postId) ==
    IF postId \in DOMAIN options.itemHeights /\ options.itemHeights[postId] # 0
    THEN options.itemHeights[postId]
    ELSE getDefaultHeight(post)

ResolveHeight(post, postId) ==
    IF postId \in DOMAIN options.itemHeights
    THEN options.itemHeights[postId]
    ELSE getDefaultHeight(post)

\* Math.max(...arr, m)
RECURSIVE MaxWith(_, _)
MaxWith(arr, m) ==
    IF arr = << >> THEN m
    ELSE MaxWith(Tail(arr), IF arr[1] > m THEN arr[1] ELSE m)

\* Math.min(...columnHeights): Infinity for an empty array.
RECURSIVE MinOf(_)
MinOf(arr) ==
    IF Len(arr) = 1 THEN arr[1]
    ELSE LET m == MinOf(Tail(arr)) IN IF arr[1] <= m THEN arr[1] ELSE m

MathMin(arr) == IF arr = << >> THEN PosInfinity ELSE Fin(MinOf(arr))

\* columnHeights.indexOf(v): the first index holding v, scanning from 0;
\* -1 when none does.
RECURSIVE IndexFrom(_, _, _)
IndexFrom(arr, v, i) ==
    IF i >= Len(arr) THEN -1
    ELSE IF Fin(arr[i + 1]) = v THEN i
    ELSE IndexFrom(arr, v, i + 1)

IndexOf(arr, v) == IndexFrom(arr, v, 0)

\* lastIndexOf in place of indexOf: ties go to the highest index.
RECURSIVE LastIndexFrom(_, _, _)
LastIndexFrom(arr, v, i) ==
    IF i < 0 THEN -1
    ELSE IF Fin(arr[i + 1]) = v THEN i
    ELSE LastIndexFrom(arr, v, i - 1)

ShortestColumn_LastIndex(arr) == LastIndexFrom(arr, MathMin(arr), Len(arr) - 1)

\* Math.max in place of Math.min: the tallest column.
ShortestColumn_Tallest(arr) ==
    IF arr = << >> THEN -1 ELSE IndexOf(arr, Fin(MaxWith(arr, arr[1])))

ShortestColumn(arr) == IndexOf(arr, MathMin(arr))

\* new Array(columnCount) throws RangeError unless columnCount is an
\* integer in 0 .. 2^32 - 1; column counts are integers here.
ArrayThrows(columnCount) == columnCount < 0

ColumnCount == getColumnCount(options.columns, options.containerWidth)

\* The width clamped at 0.
ColumnWidth_Clamped ==
    LET availableWidth == options.containerWidth - options.padding * 2
        totalGapWidth == options.gap * (ColumnCount - 1)
        width == JsDiv(availableWidth - totalGapWidth, ColumnCount)
    IN  IF width.t = "fin" /\ width.n < 0 THEN Fin(0) ELSE width

\* const columnWidth = (availableWidth - totalGapWidth) / columnCount
ColumnWidth ==
    LET availableWidth == options.containerWidth - options.padding * 2
        totalGapWidth == options.gap * (ColumnCount - 1)
    IN  JsDiv(availableWidth - totalGapWidth, ColumnCount)

\* The item's height left out, and the gap left out.
Advance_NoHeight(y, itemHeight) == JsAdd(y, Fin(options.gap))
Advance_NoGap(y, itemHeight) == JsAdd(y, Fin(itemHeight))

\* = itemHeight + gap: the column's height so far dropped.
Advance_Restart(y, itemHeight) == JsAdd(Fin(itemHeight), Fin(options.gap))

\* columnHeights[shortestColumn] = y + itemHeight + gap
Advance(y, itemHeight) == JsAdd(JsAdd(y, Fin(itemHeight)), Fin(options.gap))

\* The gap left out of the column pitch.
LeftOffset_NoGap(shortestColumn, columnWidth) ==
    JsAdd(Fin(options.padding), JsMul(Fin(shortestColumn), columnWidth))

\* const x = padding + shortestColumn * (columnWidth + gap)
LeftOffset(shortestColumn, columnWidth) ==
    JsAdd(Fin(options.padding),
          JsMul(Fin(shortestColumn), JsAdd(columnWidth, Fin(options.gap))))

\* One iteration of the loop after postId has been generated.  acc holds
\* the constant columnWidth, and columnHeights, positions and the
\* iterations so far.
PlaceItem(acc, post, postId) ==
    LET itemHeight == ResolveHeight(post, postId)
        heights == acc.columnHeights
        columnWidth == acc.columnWidth
        shortestColumn == ShortestColumn(heights.arr)
        x == LeftOffset(shortestColumn, columnWidth)
        y == IF shortestColumn = -1 THEN heights.neg1
             ELSE Fin(heights.arr[shortestColumn + 1])
        position == [ id |-> postId, x |-> x, y |-> y, width |-> columnWidth,
                      height |-> itemHeight, column |-> shortestColumn ]
        advanced == Advance(y, itemHeight)
        after == IF shortestColumn = -1
                 THEN [heights EXCEPT !.neg1 = advanced]
                 ELSE [heights EXCEPT !.arr[shortestColumn + 1] = advanced.n]
    IN  [ columnWidth |-> columnWidth,
          columnHeights |-> after,
          positions |-> (postId :> position) @@ acc.positions,
          trace |-> Append(acc.trace,
                           [ id |-> postId, height |-> itemHeight,
                             column |-> shortestColumn, y |-> y,
                             before |-> heights, after |-> after ]) ]

\* const postId = generatePostId(post), then the rest of the iteration.
Place(acc, post) == PlaceItem(acc, post, PostId(post))

RECURSIVE PlaceAll(_, _)
PlaceAll(acc, posts) ==
    IF posts = << >> THEN acc
    ELSE PlaceAll(Place(acc, Head(posts)), Tail(posts))

\* Math.max(...columnHeights.map(h => h - gap), 0)
\* The floor at 0 left out (for a non-empty array).
ContainerHeight_NoFloor(arr) ==
    IF arr = << >> THEN 0
    ELSE MaxWith([i \in 1 .. Len(arr) |-> arr[i] - options.gap], arr[1] - options.gap)

\* Math.min in place of Math.max: the shortest column decides.
ContainerHeight_Min(arr) ==
    IF arr = << >> THEN 0
    ELSE LET least == MinOf([i \in 1 .. Len(arr) |-> arr[i] - options.gap])
         IN  IF least < 0 THEN 0 ELSE least

ContainerHeight(arr) == MaxWith([i \in 1 .. Len(arr) |-> arr[i] - options.gap], 0)

\* this.state = { positions, columnHeights, containerHeight, columnWidth },
\* from what the loop leaves.
NewState(done) ==
    [ state |-> [ positions |-> done.positions,
                  columnHeights |-> done.columnHeights,
                  containerHeight |-> ContainerHeight(done.columnHeights.arr),
                  columnWidth |-> done.columnWidth ],
      trace |-> done.trace ]

\* The running heights carried over from the stored layout instead of
\* starting at 0.
Layout_Incremental(posts) ==
    LET zeros == [i \in 1 .. ColumnCount |-> 0]
        kept == IF Len(state.columnHeights.arr) = ColumnCount
                THEN state.columnHeights.arr ELSE zeros
        start == [ columnWidth |-> ColumnWidth,
                   columnHeights |-> [arr |-> kept, neg1 |-> Undefined],
                   positions |-> EmptyMap,
                   trace |-> << >> ]
    IN  NewState(PlaceAll(start, posts))

\* The body of calculate after the array has been allocated.
Layout(posts) ==
    LET start == [ columnWidth |-> ColumnWidth,
                   columnHeights |->
                       [arr |-> [i \in 1 .. ColumnCount |-> 0], neg1 |-> Undefined],
                   positions |-> EmptyMap,
                   trace |-> << >> ]
    IN  NewState(PlaceAll(start, posts))

\* The Map, the array and the state object of the call before cleared and
\* filled again instead: the object kept shows the new layout.
Earlier_InPlace(kept, layout) == [kept EXCEPT !.now = layout.state]

\* What calculate does to a LayoutState object kept from an earlier call:
\* nothing, since positions, columnHeights and the state object it writes
\* are new objects.
Earlier(kept, layout) == kept

\* this.state = ...; return this.state
Return(layout) ==
    /\ outcome' = "returned"
    /\ state' = layout.state
    /\ returned' = layout.state
    /\ trace' = layout.trace
    /\ earlier' = IF earlier.held THEN Earlier(earlier, layout) ELSE earlier

SameArgs(posts) ==
    /\ outcome # "none"
    /\ calcArgs.posts = posts
    /\ calcArgs.itemHeights = options.itemHeights
    /\ calcArgs.containerWidth = options.containerWidth

\* The heights the posts were laid out with written back to the map.
calculate_StoresHeights(posts) ==
    /\ calcArgs' = [ posts |-> posts, itemHeights |-> options.itemHeights,
                     containerWidth |-> options.containerWidth,
                     repeated |-> SameArgs(posts) ]
    /\ IF ArrayThrows(ColumnCount)
       THEN /\ outcome' = "threw"
            /\ trace' = << >>
            /\ UNCHANGED << state, returned, earlier >>
       ELSE Return(Layout(posts))
    /\ LET used == [ id \in {PostId(posts[i]) : i \in 1 .. Len(posts)} |->
                        ResolveHeight(CHOOSE post \in PostUniverse : PostId(post) = id, id) ]
       IN  options' = [options EXCEPT !.itemHeights = @ @@ used]
    /\ UNCHANGED << lastSet, widthGiven, embedGiven, call, others >>

calculate(posts) ==
    /\ calcArgs' = [ posts |-> posts, itemHeights |-> options.itemHeights,
                     containerWidth |-> options.containerWidth,
                     repeated |-> SameArgs(posts) ]
    /\ IF ArrayThrows(ColumnCount)
       THEN /\ outcome' = "threw"
            /\ trace' = << >>
            /\ UNCHANGED << state, returned, earlier >>
       ELSE Return(Layout(posts))
    /\ UNCHANGED << options, lastSet, widthGiven, embedGiven, call, others >>

\* An entry, once set, is kept.
updateItemHeight_KeepFirst(id, height) ==
    /\ options' = [options EXCEPT !.itemHeights = @ @@ (id :> height)]
    /\ lastSet' = (id :> height) @@ lastSet
    /\ UNCHANGED << state, outcome, returned, calcArgs, trace, earlier, widthGiven, embedGiven, call, others >>

updateItemHeight(id, height) ==
    /\ options' = [options EXCEPT !.itemHeights = (id :> height) @@ @]
    /\ lastSet' = (id :> height) @@ lastSet
    /\ UNCHANGED << state, outcome, returned, calcArgs, trace, earlier, widthGiven, embedGiven, call, others >>

\* The stored layout dropped when the width changes.
setContainerWidth_Reset(width) ==
    /\ options' = [options EXCEPT !.containerWidth = width]
    /\ state' = InitialState
    /\ widthGiven' = width
    /\ UNCHANGED << outcome, returned, calcArgs, trace, lastSet, earlier, embedGiven, call, others >>

\* The width kept for the next calculate to pick up, not stored.
setContainerWidth_Ignored(width) ==
    /\ widthGiven' = width
    /\ UNCHANGED << options, state, outcome, returned, calcArgs, trace, lastSet,
                    earlier, embedGiven, call, others >>

setContainerWidth(width) ==
    /\ options' = [options EXCEPT !.containerWidth = width]
    /\ widthGiven' = width
    /\ UNCHANGED << state, outcome, returned, calcArgs, trace, lastSet, earlier, embedGiven, call, others >>

\* The read-only methods.
getState == state
getPosition(id) == IF id \in DOMAIN state.positions THEN state.positions[id] ELSE Undefined
LayoutEngine_getColumnCount == getColumnCount(options.columns, options.containerWidth)

\* { twitterHeight: DEFAULT_TWITTER_HEIGHT, instagramHeight:
\* DEFAULT_INSTAGRAM_HEIGHT, ...options }: a property the caller's object
\* has replaces the default.  (The properties given here hold numbers.)
SpreadOver(defaults, given) == given @@ defaults

EmbedDefaults ==
    [ twitterHeight |-> DEFAULT_TWITTER_HEIGHT,
      instagramHeight |-> DEFAULT_INSTAGRAM_HEIGHT ]

\* new LayoutEngine(options): defaults, then the caller's options.
ConstructWith(gap, padding, columns, containerWidth, itemHeights, embed) ==
    /\ options = [ gap |-> gap, columns |-> columns, padding |-> padding,
                   twitterHeight |-> SpreadOver(EmbedDefaults, embed).twitterHeight,
                   instagramHeight |-> SpreadOver(EmbedDefaults, embed).instagramHeight,
                   containerWidth |-> containerWidth,
                   itemHeights |-> itemHeights ]
    /\ embedGiven = embed
    /\ state = InitialState
    /\ outcome = "none"
    /\ returned = InitialState
    /\ calcArgs = [ posts |-> << >>, itemHeights |-> EmptyMap,
                    containerWidth |-> 0, repeated |-> FALSE ]
    /\ trace = << >>
    /\ lastSet = itemHeights
    /\ widthGiven = containerWidth
    /\ earlier = [held |-> FALSE, was |-> InitialState, now |-> InitialState]

\* The engine built without embed heights.
Construct(gap, padding, columns, containerWidth, itemHeights) ==
    ConstructWith(gap, padding, columns, containerWidth, itemHeights, EmptyMap)

(***************************************************************************)
(* Spec: one engine over its life.  It is built with the default gap and   *)
(* padding and an empty height map, and its methods are called in any      *)
(* order, any number of times.                                             *)
(***************************************************************************)
EngineColumnSpecs ==
    { Number(-1), Number(0), Number(2), Breakpoints(defaultColumnConfig) }
EngineWidths == {0, 1000}

Init ==
    /\ \E columns \in EngineColumnSpecs, containerWidth \in EngineWidths :
          Construct(16, 0, columns, containerWidth, EmptyMap)
    /\ call = NoCall
    /\ OthersIdle

Next ==
    \/ \E posts \in FeedWindows : calculate(posts)
    \/ \E id \in HeightIds, height \in Heights : updateItemHeight(id, height)
    \/ \E width \in EngineWidths : setContainerWidth(width)

Spec == Init /\ [][Next]_vars

(***************************************************************************)
(* LayoutSpec: calculate as a function of its inputs.  The engine is built *)
(* with any configuration, width and height map of the bounded sets, and   *)
(* calculate is called once, on any post list.                             *)
(***************************************************************************)
LayoutInit ==
    /\ \E gap \in Gaps, padding \in Paddings, columns \in ColumnSpecs,
          containerWidth \in ContainerWidths, itemHeights \in HeightMaps,
          embed \in EmbedConfigs :
          ConstructWith(gap, padding, columns, containerWidth, itemHeights, embed)
    /\ call = NoCall
    /\ OthersIdle

FirstCalculate ==
    /\ outcome = "none"
    /\ \E posts \in PostLists : calculate(posts)

LayoutNext == FirstCalculate

LayoutSpec == LayoutInit /\ [][LayoutNext]_vars

(***************************************************************************)
(* HoldSpec: an engine over its life, as in Spec, whose caller keeps the   *)
(* LayoutState object a calculate on the whole feed returned before any    *)
(* height was reported, and goes on calling the engine.                    *)
(***************************************************************************)
HoldInit ==
    /\ \E columns \in {Number(2), Breakpoints(defaultColumnConfig)} :
          Construct(16, 0, columns, 1000, EmptyMap)
    /\ call = NoCall
    /\ OthersIdle

\* const kept = engine.calculate(posts), or engine.getState()
Hold ==
    /\ outcome = "returned"
    /\ ~earlier.held
    /\ options.itemHeights = EmptyMap
    /\ calcArgs.posts = Feed
    /\ earlier' = [held |-> TRUE, was |-> getState, now |-> getState]
    /\ UNCHANGED << options, state, outcome, returned, calcArgs, trace, lastSet,
                    widthGiven, embedGiven, call, others >>

HoldNext ==
    \/ \E posts \in FeedWindows : calculate(posts)
    \/ \E id \in HeightIds, height \in Heights : updateItemHeight(id, height)
    \/ \E width \in EngineWidths : setContainerWidth(width)
    \/ Hold

HoldSpec == HoldInit /\ [][HoldNext]_vars

(***************************************************************************)
(* UtilsSpec: the functions of utils.ts applied to their arguments.  A     *)
(* call is drawn with its arguments, and returns.  The engine stands by.   *)
(***************************************************************************)
BreakpointUniverse == { Bp(1, 0), Bp(2, 600), Bp(3, 900), Bp(4, 1200), Bp(5, 600) }

\* Every order a list can be written in.
Orderings(list) ==
    LET n == Len(list)
        perms == {p \in [1 .. n -> 1 .. n] : \A i, j \in 1 .. n : p[i] = p[j] => i = j}
    IN  {[i \in 1 .. n |-> list[p[i]]] : p \in perms}

BreakpointLists ==
    SeqsUpTo(BreakpointUniverse, MaxBreakpoints) \cup Orderings(defaultColumnConfig)

FixedCounts == {-2, 0, 1, 3}
Widths == {-1, 0, 320, 599, 600, 640, 900, 1024, 1200, 1920}

Pending(fn, args) ==
    [ fn |-> fn, args |-> args, done |-> FALSE, result |-> 0,
      again |-> FALSE, before |-> 0 ]

CountCalls ==
    { Pending("getColumnCount", << columns, width >>) :
        columns \in {Breakpoints(list) : list \in BreakpointLists}
                    \cup {Number(n) : n \in FixedCounts},
        width \in Widths }

\* URLs of the two status hosts and of the two kinds of Instagram post,
\* with and without something after the identifier.
Handles == { << "u" >>, << "a", "_", "1" >> }
StatusIds == { << "7" >>, << "1", "2", "3" >> }
StatusTails == { << >>, << "?", "s" >>, << "/", "p" >> }
TweetUrl(host, handle, id, tail) ==
    Https \o host \o Slash \o handle \o SlashStatusSlash \o id \o tail
TweetUrls ==
    { TweetUrl(host, handle, id, tail) :
        host \in {TwitterCom, XCom}, handle \in Handles,
        id \in StatusIds, tail \in StatusTails }

Kinds == { << "p" >>, Reel }
Shortcodes == { << "B", "q" >>, << "C", "-", "_", "9" >> }
ShortcodeTails == { << >>, << "/" >>, << "?", "x" >> }
InstagramUrl(kind, code, tail) ==
    Https \o InstagramCom \o Slash \o kind \o Slash \o code \o tail
InstagramUrls ==
    { InstagramUrl(kind, code, tail) :
        kind \in Kinds, code \in Shortcodes, tail \in ShortcodeTails }

\* URLs neither pattern matches: the empty URL, a profile, a status
\* without digits, without a handle, with a handle that is no \w+, an
\* Instagram path that is neither p nor reel, and another site.
OtherUrls ==
    { << >>,
      Https \o XCom \o UserU,
      Https \o XCom \o UserU \o SlashStatusSlash,
      Https \o XCom \o Slash \o SlashStatusSlash \o << "1" >>,
      Https \o XCom \o << "/", "a", "-", "b" >> \o SlashStatusSlash \o << "1" >>,
      Https \o InstagramCom \o << "/", "t", "v", "/", "B", "q" >>,
      Https \o << "e", ".", "i", "o", "/", "p", "/", "Z" >> }

Urls == TweetUrls \cup InstagramUrls \cup OtherUrls

\* A post with no id, with the id "" and with the id "custom-id".
PostInputs ==
    { [id |-> explicit.id, given |-> explicit.given, platform |-> platform, url |-> url] :
        explicit \in { [id |-> "", given |-> FALSE], [id |-> "", given |-> TRUE],
                       [id |-> "custom-id", given |-> TRUE] },
        platform \in Platforms, url \in Urls }

IdCalls == { Pending("generatePostId", << post >>) : post \in PostInputs }

UtilsInit ==
    /\ Construct(16, 0, Breakpoints(defaultColumnConfig), 0, EmptyMap)
    /\ call \in CountCalls \cup IdCalls
    /\ OthersIdle

CallGetColumnCount ==
    /\ call.fn = "getColumnCount"
    /\ ~call.done
    /\ call' = [call EXCEPT !.done = TRUE,
                            !.result = getColumnCount(call.args[1], call.args[2])]
    /\ UNCHANGED << engine, others >>

CallGeneratePostId ==
    /\ call.fn = "generatePostId"
    /\ ~call.done
    /\ call' = [call EXCEPT !.done = TRUE, !.result = generatePostId(call.args[1])]
    /\ UNCHANGED << engine, others >>

\* The same call made a second time.
CallGeneratePostIdAgain ==
    /\ call.fn = "generatePostId"
    /\ call.done /\ ~call.again
    /\ call' = [call EXCEPT !.again = TRUE, !.before = call.result,
                            !.result = generatePostId(call.args[1])]
    /\ UNCHANGED << engine, others >>

UtilsNext ==
    \/ CallGetColumnCount
    \/ CallGeneratePostId
    \/ CallGeneratePostIdAgain

UtilsSpec == UtilsInit /\ [][UtilsNext]_vars


(***************************************************************************)
(* ScenarioSpec: an engine 1000 wide with two fixed columns, the default   *)
(* gap and no padding, built with a measured height of 50, 100 or 200 for  *)
(* each of three posts, lays the three posts out once, in any order.       *)
(***************************************************************************)
ScenarioPosts == << PostA, PostB, PostT >>
ScenarioIds == {PostId(ScenarioPosts[i]) : i \in 1 .. Len(ScenarioPosts)}
ScenarioHeights == {50, 100, 200}

ScenarioInit ==
    /\ \E itemHeights \in [ScenarioIds -> ScenarioHeights] :
          Construct(16, 0, Number(2), 1000, itemHeights)
    /\ call = NoCall
    /\ OthersIdle

ScenarioCalculate ==
    /\ outcome = "none"
    /\ \E posts \in Orderings(ScenarioPosts) : calculate(posts)

ScenarioNext == ScenarioCalculate

ScenarioSpec == ScenarioInit /\ [][ScenarioNext]_vars


(***************************************************************************)
(* DebounceSpec: a function made by debounce(fn, delay) and the timers of  *)
(* the event loop.  Time passes in ticks; a timer's callback runs once its *)
(* delay has passed, at that tick or later (setTimeout gives the least     *)
(* delay), and every callback runs to its end before anything else does.   *)
(* fn is either a function that only takes its argument, or one that calls *)
(* the debounced function again, with "x", when its argument is "again".   *)
(***************************************************************************)
Delays == {2, 3}
Fns == {"plain", "again"}
Args == {"x", "again"}

\* debounce(fn, delay): let timeoutId = null, and the function returned.
debounce(fn, delay) ==
    [ made |-> TRUE, fn |-> fn, delay |-> delay, timeoutId |-> 0, timers |-> {},
      nextId |-> 1, now |-> 0, calls |-> << >>, invocations |-> << >> ]

\* clearTimeout(id): the timer, if it is still set, is dropped.
clearTimeout(timers, id) == {t \in timers : t.id # id}

\* The function returned, called with args (inner: from within fn):
\* if (timeoutId) clearTimeout(timeoutId); timeoutId = setTimeout(..., delay)
Debounced(d, args, inner) ==
    LET kept == IF d.timeoutId # 0 THEN clearTimeout(d.timers, d.timeoutId)
                ELSE d.timers
        timer == [ id |-> d.nextId, due |-> d.now + d.delay, args |-> args,
                   call |-> Len(d.calls) + 1 ]
    IN  [ d EXCEPT !.timers = kept \cup {timer},
                   !.timeoutId = d.nextId,
                   !.nextId = @ + 1,
                   !.calls = Append(@, [at |-> d.now, args |-> args, inner |-> inner]) ]

\* fn.apply(this, args), for the two functions fn can be.
Apply(d, timer) ==
    LET invoked ==
            [ d EXCEPT !.invocations =
                  Append(@, [ at |-> d.now, args |-> timer.args, call |-> timer.call,
                              latest |-> Len(d.calls) ]) ]
    IN  IF d.fn = "again" /\ timer.args = "again"
        THEN Debounced(invoked, "x", TRUE)
        ELSE invoked

OuterCalls == {i \in 1 .. Len(debounced.calls) : ~debounced.calls[i].inner}

DebounceInit ==
    /\ Construct(16, 0, Breakpoints(defaultColumnConfig), 0, EmptyMap)
    /\ call = NoCall
    /\ \E fn \in Fns, delay \in Delays : debounced = debounce(fn, delay)
    /\ component = NoComponent
    /\ loader = NoLoader

\* A call of the debounced function from outside fn.
CallDebounced(args) ==
    /\ debounced.made
    /\ Cardinality(OuterCalls) < MaxCalls
    /\ debounced' = Debounced(debounced, args, FALSE)
    /\ UNCHANGED << engine, call, component, loader >>

\* The callback given to setTimeout: () => { fn.apply(this, args);
\* timeoutId = null }
TimerCallback(timer) ==
    /\ debounced.made
    /\ timer \in debounced.timers
    /\ debounced.now >= timer.due
    /\ debounced' =
           [ Apply([debounced EXCEPT !.timers = @ \ {timer}], timer)
               EXCEPT !.timeoutId = 0 ]
    /\ UNCHANGED << engine, call, component, loader >>

Tick ==
    /\ debounced.made
    /\ debounced.now < MaxTime
    /\ debounced' = [debounced EXCEPT !.now = @ + 1]
    /\ UNCHANGED << engine, call, component, loader >>

DebounceNext ==
    \/ \E args \in Args : CallDebounced(args)
    \/ \E timer \in debounced.timers : TimerCallback(timer)
    \/ Tick

DebounceSpec == DebounceInit /\ [][DebounceNext]_vars


(***************************************************************************)
(* The numbers of the code are IEEE 754 doubles.  The layouts above carry  *)
(* the exact quotient for columnWidth and x; what follows computes the     *)
(* same expressions as the doubles the code gets, each operation rounded   *)
(* to 53 significant bits, to nearest, ties to even.  Only values >= 0     *)
(* occur.  A natural number of any size is the sequence of its limbs, base *)
(* 2^15, lowest first, without leading zeros; a double is m * 2^e.         *)
(***************************************************************************)
Limb == 32768
LimbBits == 15
Precision == 53

RECURSIVE Pow2(_)
Pow2(n) == IF n = 0 THEN 1 ELSE 2 * Pow2(n - 1)

RECURSIVE Big(_)
Big(n) == IF n = 0 THEN << >> ELSE << n % Limb >> \o Big(n \div Limb)

RECURSIVE BigTrim(_)
BigTrim(a) ==
    IF a = << >> THEN a
    ELSE IF a[Len(a)] = 0 THEN BigTrim(SubSeq(a, 1, Len(a) - 1))
    ELSE a

RECURSIVE BigAddFrom(_, _, _, _)
BigAddFrom(a, b, i, carry) ==
    IF i > Len(a) /\ i > Len(b) THEN Big(carry)
    ELSE LET sum == (IF i <= Len(a) THEN a[i] ELSE 0)
                    + (IF i <= Len(b) THEN b[i] ELSE 0) + carry
         IN  << sum % Limb >> \o BigAddFrom(a, b, i + 1, sum \div Limb)

BigAdd(a, b) == BigTrim(BigAddFrom(a, b, 1, 0))

\* a * c for 0 <= c < 2^15.
RECURSIVE BigMulFrom(_, _, _, _)
BigMulFrom(a, c, i, carry) ==
    IF i > Len(a) THEN Big(carry)
    ELSE LET product == a[i] * c + carry
         IN  << product % Limb >> \o BigMulFrom(a, c, i + 1, product \div Limb)

BigMulSmall(a, c) == BigTrim(BigMulFrom(a, c, 1, 0))

\* Quotient and remainder of a by k, 0 < k <= 2^15, from the highest limb.
RECURSIVE BigDivFrom(_, _, _, _)
BigDivFrom(a, k, i, rem) ==
    IF i = 0 THEN [q |-> << >>, r |-> rem]
    ELSE LET cur == rem * Limb + a[i]
             rest == BigDivFrom(a, k, i - 1, cur % k)
         IN  [q |-> Append(rest.q, cur \div k), r |-> rest.r]

BigDivSmall(a, k) ==
    LET d == BigDivFrom(a, k, Len(a), 0) IN [q |-> BigTrim(d.q), r |-> d.r]

RECURSIVE BitLength(_)
BitLength(n) == IF n = 0 THEN 0 ELSE 1 + BitLength(n \div 2)

BigBitLength(a) ==
    IF a = << >> THEN 0 ELSE LimbBits * (Len(a) - 1) + BitLength(a[Len(a)])

BigIsOdd(a) == a # << >> /\ a[1] % 2 = 1

BigShiftLeft(a, s) ==
    IF a = << >> THEN a
    ELSE [i \in 1 .. s \div LimbBits |-> 0] \o BigMulSmall(a, Pow2(s % LimbBits))

\* a shifted right by s bits, and whether a bit shifted out was 1.
BigShiftRight(a, s) ==
    LET drop == IF s \div LimbBits < Len(a) THEN s \div LimbBits ELSE Len(a)
        d == BigDivSmall(SubSeq(a, drop + 1, Len(a)), Pow2(s % LimbBits))
    IN  [ q |-> d.q,
          sticky |-> d.r # 0 \/ \E i \in 1 .. drop : a[i] # 0 ]

RECURSIVE BigCompareFrom(_, _, _)
BigCompareFrom(a, b, i) ==
    IF i = 0 THEN 0
    ELSE IF a[i] < b[i] THEN -1
    ELSE IF a[i] > b[i] THEN 1
    ELSE BigCompareFrom(a, b, i - 1)

\* -1, 0 or 1 as a is less than, equal to or greater than b.
BigCompare(a, b) ==
    IF Len(a) < Len(b) THEN -1
    ELSE IF Len(a) > Len(b) THEN 1
    ELSE BigCompareFrom(a, b, Len(a))

\* The double nearest to (m + f) * 2^e, where 0 <= f < 1 and sticky tells
\* whether f > 0 (m then has more than 54 bits); ties go to the even
\* significand.
RoundToDouble(m, e, sticky) ==
    LET excess == BigBitLength(m) - Precision IN
    IF excess <= 0 THEN [m |-> m, e |-> e]
    ELSE LET withGuard == BigShiftRight(m, excess - 1)
             q == BigShiftRight(withGuard.q, 1).q
             guard == BigIsOdd(withGuard.q)
             below == withGuard.sticky \/ sticky
             up == guard /\ (below \/ BigIsOdd(q))
         IN  [m |-> IF up THEN BigAdd(q, Big(1)) ELSE q, e |-> e + excess]

DoubleOfInt(n) == [m |-> Big(n), e |-> 0]

\* n / k for integers n >= 0 and k >= 1.
DoubleDiv(n, k) ==
    LET d == BigDivSmall(BigShiftLeft(Big(n), 70), k)
    IN  RoundToDouble(d.q, -70, d.r # 0)

\* Both significands at the smaller of the two exponents.
Align(a, b) ==
    LET e == IF a.e <= b.e THEN a.e ELSE b.e
    IN  [a |-> BigShiftLeft(a.m, a.e - e), b |-> BigShiftLeft(b.m, b.e - e), e |-> e]

DoubleAdd(a, b) ==
    LET at == Align(a, b) IN RoundToDouble(BigAdd(at.a, at.b), at.e, FALSE)

\* c * a for an integer 0 <= c < 2^15.
DoubleMul(c, a) == RoundToDouble(BigMulSmall(a.m, c), a.e, FALSE)

\* -1, 0 or 1 as a < b, a = b or a > b.
DoubleCompare(a, b) ==
    LET at == Align(a, b) IN BigCompare(at.a, at.b)

\* const columnWidth = (availableWidth - totalGapWidth) / columnCount, with
\* the gaps left out.
ColumnWidthDouble_NoGaps ==
    DoubleDiv(options.containerWidth - options.padding * 2, ColumnCount)

\* const columnWidth = (availableWidth - totalGapWidth) / columnCount
ColumnWidthDouble ==
    LET availableWidth == options.containerWidth - options.padding * 2
        totalGapWidth == options.gap * (ColumnCount - 1)
    IN  DoubleDiv(availableWidth - totalGapWidth, ColumnCount)

\* const x = padding + shortestColumn * (columnWidth + gap)
LeftOffsetDouble(shortestColumn) ==
    DoubleAdd(DoubleOfInt(options.padding),
              DoubleMul(shortestColumn,
                        DoubleAdd(ColumnWidthDouble, DoubleOfInt(options.gap))))

(***************************************************************************)
(* RoundingSpec: engines with one to three fixed columns whose gap and     *)
(* padding are not negative and fit into the container width, laying out   *)
(* any post list once.                                                     *)
(***************************************************************************)
RoundingWidths == {100, 101, 600, 1000}
RoundingGaps == {0, 16}
RoundingColumns == 1 .. 3

RoundingInit ==
    /\ \E gap \in RoundingGaps, padding \in Paddings, k \in RoundingColumns,
          containerWidth \in RoundingWidths :
          /\ containerWidth - padding * 2 - gap * (k - 1) >= 0
          /\ Construct(gap, padding, Number(k), containerWidth, EmptyMap)
    /\ call = NoCall
    /\ OthersIdle

RoundingCalculate ==
    /\ outcome = "none"
    /\ \E posts \in PostLists : calculate(posts)

RoundingNext == RoundingCalculate

RoundingSpec == RoundingInit /\ [][RoundingNext]_vars


(***************************************************************************)
(* The layout calculator of the React component (the version that lays     *)
(* the embeds out itself).                                                 *)
(***************************************************************************)
MAX_TWITTER_WIDTH == 550
MAX_INSTAGRAM_WIDTH == 540
MAX_EMBED_WIDTH == 550

\* || in place of ??: an entry of 0 gives way to the default.
InlineHeight_OrDefault(post, postId, itemHeights) ==
    IF postId \in DOMAIN itemHeights /\ itemHeights[postId] # 0
    THEN itemHeights[postId]
    ELSE IF post.platform = "twitter" THEN DEFAULT_TWITTER_HEIGHT
    ELSE DEFAULT_INSTAGRAM_HEIGHT

\* itemHeights.get(postId) ??
\*   (post.platform === 'twitter' ? DEFAULT_TWITTER_HEIGHT : DEFAULT_INSTAGRAM_HEIGHT)
InlineHeight(post, postId, itemHeights) ==
    IF postId \in DOMAIN itemHeights THEN itemHeights[postId]
    ELSE IF post.platform = "twitter" THEN DEFAULT_TWITTER_HEIGHT
    ELSE DEFAULT_INSTAGRAM_HEIGHT

\* const x = offsetX + shortestColumn * (columnWidth + gap)
InlineLeftOffset(offsetX, shortestColumn, columnWidth, gap) ==
    JsAdd(offsetX, JsMul(Fin(shortestColumn), JsAdd(columnWidth, Fin(gap))))

\* const itemWidth = Math.min(columnWidth, maxWidth)
InlineItemWidth(post, columnWidth) ==
    JsMin(columnWidth,
          Fin(IF post.platform = "instagram" THEN MAX_INSTAGRAM_WIDTH
              ELSE MAX_TWITTER_WIDTH))

\* One iteration of the loop of calculateLayout, for the column chosen.
InlinePlaceIn(acc, post, postId, itemHeight, shortestColumn) ==
    LET y == IF shortestColumn = -1 THEN acc.columnHeights.neg1
             ELSE Fin(acc.columnHeights.arr[shortestColumn + 1])
        advanced == JsAdd(JsAdd(y, Fin(itemHeight)), Fin(acc.gap))
        position ==
            [ id |-> postId,
              x |-> InlineLeftOffset(acc.offsetX, shortestColumn, acc.columnWidth, acc.gap),
              y |-> y,
              width |-> InlineItemWidth(post, acc.columnWidth),
              height |-> itemHeight,
              column |-> shortestColumn ]
    IN  [ acc EXCEPT
            !.positions = (postId :> position) @@ @,
            !.columnHeights =
                IF shortestColumn = -1 THEN [@ EXCEPT !.neg1 = advanced]
                ELSE [@ EXCEPT !.arr[shortestColumn + 1] = advanced.n] ]

InlinePlace(acc, post) ==
    InlinePlaceIn(acc, post, PostId(post),
                  InlineHeight(post, PostId(post), acc.itemHeights),
                  ShortestColumn(acc.columnHeights.arr))

RECURSIVE InlinePlaceAll(_, _)
InlinePlaceAll(acc, posts) ==
    IF posts = << >> THEN acc
    ELSE InlinePlaceAll(InlinePlace(acc, Head(posts)), Tail(posts))

\* Math.max(...columnHeights.map(h => Math.max(0, h - gap)), 0)
InlineContainerHeight(arr, gap) ==
    MaxWith([i \in 1 .. Len(arr) |->
                IF arr[i] - gap > 0 THEN arr[i] - gap ELSE 0], 0)

\* return { positions, containerHeight, columnWidth }
InlineResult(done) ==
    [ outcome |-> "returned",
      positions |-> done.positions,
      containerHeight |-> InlineContainerHeight(done.columnHeights.arr, done.gap),
      columnWidth |-> done.columnWidth ]

\* The widths and the centering offset, then the loop.
InlineStart(containerWidth, columnCount, gap, itemHeights, columnWidth) ==
    LET totalGridWidth ==
            JsAdd(JsMul(columnWidth, Fin(columnCount)), Fin(gap * (columnCount - 1)))
        offsetX ==
            JsMul(JsAdd(Fin(containerWidth), JsMul(Fin(-1), totalGridWidth)), Rat(1, 2))
    IN  [ gap |-> gap, itemHeights |-> itemHeights,
          columnWidth |-> columnWidth, offsetX |-> offsetX,
          columnHeights |-> [arr |-> [i \in 1 .. columnCount |-> 0], neg1 |-> Undefined],
          positions |-> EmptyMap ]

calculateLayout(posts, containerWidth, columnCount, gap, itemHeights) ==
    IF ArrayThrows(columnCount) THEN [outcome |-> "threw"]
    ELSE LET rawColumnWidth ==
                 JsDiv(containerWidth - gap * (columnCount - 1), columnCount)
             columnWidth == JsMin(rawColumnWidth, Fin(MAX_EMBED_WIDTH))
         IN  InlineResult(InlinePlaceAll(
                 InlineStart(containerWidth, columnCount, gap, itemHeights, columnWidth),
                 posts))

(***************************************************************************)
(* InlineSpec: the component's calculateLayout and an engine with padding  *)
(* 0 and the default embed heights, given the same posts, width, column    *)
(* count, gap and height map; each is run once, in either order.           *)
(***************************************************************************)
InlineWidths == {0, 600, 2000}
InlineColumnCounts == {-1, 0, 1, 2, 3}

InlineInit ==
    \E gap \in Gaps, columnCount \in InlineColumnCounts,
       containerWidth \in InlineWidths, itemHeights \in HeightMaps,
       posts \in PostLists :
        /\ Construct(gap, 0, Number(columnCount), containerWidth, itemHeights)
        /\ call = Pending("calculateLayout",
                          << posts, containerWidth, columnCount, gap, itemHeights >>)
        /\ OthersIdle

CallCalculateLayout ==
    /\ call.fn = "calculateLayout"
    /\ ~call.done
    /\ call' = [call EXCEPT !.done = TRUE,
                            !.result = calculateLayout(call.args[1], call.args[2],
                                           call.args[3], call.args[4], call.args[5])]
    /\ UNCHANGED << engine, others >>

EngineCalculate ==
    /\ call.fn = "calculateLayout"
    /\ outcome = "none"
    /\ calculate(call.args[1])

InlineNext ==
    \/ CallCalculateLayout
    \/ EngineCalculate

InlineSpec == InlineInit /\ [][InlineNext]_vars


(***************************************************************************)
(* ComponentSpec: a mounted SocialMasonry component.  Observer callbacks   *)
(* (the container's, and each embed's) run one at a time and queue state   *)
(* updates; a render applies the updates queued so far, in order, and      *)
(* computes the layout again.  component holds the props gap and columns,  *)
(* the state as of the last render (posts, containerWidth, columnCount,    *)
(* itemHeights), that render's layout, the queue, and as history: whether  *)
(* an embed's observer has seen a height that is not positive (ignored),   *)
(* the last height handed to handleHeightChange per post (reported), and   *)
(* the posts whose heights the last render applied and how many height     *)
(* updates it applied (batch, applied).                                    *)
(***************************************************************************)
ClientWidths == {0, 1000}
ComponentPosts == << PostA, PostB >>
ObservedHeights == {0, 300, 400}

\* setContainerWidth(width), setColumnCount(count): the state is replaced.
SetValue(target, value) ==
    [ target |-> target, functional |-> FALSE, value |-> value, id |-> "", height |-> 0 ]

\* setItemHeights(prev => new Map(prev).set(postId, height))
SetEntry(postId, height) ==
    [ target |-> "itemHeights", functional |-> TRUE, value |-> 0,
      id |-> postId, height |-> height ]

\* const updateSize = () => { ... }
updateSize(columns, width) ==
    << SetValue("containerWidth", width),
       SetValue("columnCount", getColumnCount(columns, width)) >>

\* The map of the last render copied and set, instead of an updater.
handleHeightChange_Stale(postId, height) ==
    SetValue("itemHeights", (postId :> height) @@ component.itemHeights)

\* const handleHeightChange = useCallback((postId, height) => { ... }, [])
handleHeightChange(postId, height) == SetEntry(postId, height)

\* One queued update applied to the state.
ApplyUpdate(st, update) ==
    IF update.target = "containerWidth" THEN [st EXCEPT !.containerWidth = update.value]
    ELSE IF update.target = "columnCount" THEN [st EXCEPT !.columnCount = update.value]
    ELSE IF update.functional
         THEN [st EXCEPT !.itemHeights = (update.id :> update.height) @@ @]
    ELSE [st EXCEPT !.itemHeights = update.value]

RECURSIVE ApplyUpdates(_, _)
ApplyUpdates(st, queue) ==
    IF queue = << >> THEN st
    ELSE ApplyUpdates(ApplyUpdate(st, Head(queue)), Tail(queue))

\* const layout = useMemo(() => { ... }, [posts, containerWidth, ...])
LayoutMemo(st) ==
    IF st.containerWidth = 0
    THEN [ outcome |-> "returned", positions |-> EmptyMap, containerHeight |-> 0,
           columnWidth |-> Fin(0) ]
    ELSE calculateLayout(st.posts, st.containerWidth, st.columnCount, st.gap,
                         st.itemHeights)

\* The first render and the effects after it: useState's initial values,
\* then updateSize() with the container's clientWidth.
SocialMasonry(posts, gap, columns, clientWidth) ==
    [ mounted |-> TRUE, gap |-> gap, columns |-> columns,
      posts |-> posts, containerWidth |-> 0, columnCount |-> 3,
      itemHeights |-> EmptyMap,
      layout |-> [ outcome |-> "returned", positions |-> EmptyMap,
                   containerHeight |-> 0, columnWidth |-> Fin(0) ],
      queue |-> updateSize(columns, clientWidth),
      ignored |-> FALSE, reported |-> EmptyMap, batch |-> {}, applied |-> 0 ]

ComponentInit ==
    /\ Construct(16, 0, Breakpoints(defaultColumnConfig), 0, EmptyMap)
    /\ call = NoCall
    /\ debounced = NoDebounce
    /\ loader = NoLoader
    /\ \E clientWidth \in ClientWidths :
          component = SocialMasonry(ComponentPosts, 16,
                                    Breakpoints(defaultColumnConfig), clientWidth)

Embeds == {PostId(component.posts[i]) : i \in 1 .. Len(component.posts)}

\* The ResizeObserver callback of the embed of post postId, with one entry
\* of the height given: if (height > 0) onHeightChangeRef.current?.(height)
EmbedResized(postId, height) ==
    /\ component.mounted
    /\ postId \in Embeds
    /\ Len(component.queue) < MaxPending
    /\ component' =
          IF height > 0
          THEN [ component EXCEPT
                   !.queue = Append(@, handleHeightChange(postId, height)),
                   !.reported = (postId :> height) @@ @ ]
          ELSE [ component EXCEPT !.ignored = TRUE ]
    /\ UNCHANGED << engine, call, debounced, loader >>

\* The ResizeObserver callback of the container: updateSize
ContainerResized(clientWidth) ==
    /\ component.mounted
    /\ Len(component.queue) + 2 <= MaxPending
    /\ component' =
          [ component EXCEPT
              !.queue = @ \o updateSize(component.columns, clientWidth) ]
    /\ UNCHANGED << engine, call, debounced, loader >>

\* The state after a render: the layout of the new state, an empty queue.
Rendered(st, heightUpdates) ==
    [ st EXCEPT
        !.layout = LayoutMemo(st),
        !.queue = << >>,
        !.batch = { st.queue[i].id : i \in heightUpdates },
        !.applied = Cardinality(heightUpdates) ]

\* A render: the queued updates in order, then the layout.
Render ==
    /\ component.mounted
    /\ component.queue # << >>
    /\ component' =
          Rendered(ApplyUpdates(component, component.queue),
                   { i \in 1 .. Len(component.queue) :
                       component.queue[i].target = "itemHeights" })
    /\ UNCHANGED << engine, call, debounced, loader >>

ComponentNext ==
    \/ \E postId \in PostIds_All, height \in ObservedHeights : EmbedResized(postId, height)
    \/ \E clientWidth \in ClientWidths : ContainerResized(clientWidth)
    \/ Render

ComponentSpec == ComponentInit /\ [][ComponentNext]_vars


(***************************************************************************)
(* LoaderSpec: the script loaders of the component's module.  Embeds call  *)
(* loadTwitterScript and loadInstagramScript from their effects, one call  *)
(* at a time; a script appended to document.head is fetched and run some   *)
(* time later, which defines the platform's global and fires onload.       *)
(* loader holds the two module flags, the globals window.twttr and         *)
(* window.instgrm (whether defined), the script elements appended, each    *)
(* with its platform and whether its onload has fired, and the promises    *)
(* returned, each with its platform, the script whose onload resolves it   *)
(* (0 for none) and whether it is resolved.                                *)
(***************************************************************************)
\* The module as loaded in a page that does or does not have the widgets
\* already: let twitterScriptLoaded = false, instagramScriptLoaded = false
ModuleLoaded(twttr, instgrm) ==
    [ loaded |-> TRUE,
      flag |-> [twitter |-> FALSE, instagram |-> FALSE],
      global |-> [twitter |-> twttr, instagram |-> instgrm],
      scripts |-> << >>, promises |-> << >> ]

\* The body the two loaders share, for the platform's flag and global.
LoadScript(l, platform) ==
    IF l.flag[platform]
    THEN [ l EXCEPT !.promises =
             Append(@, [platform |-> platform, script |-> 0, resolved |-> TRUE]) ]
    ELSE IF l.global[platform]
    THEN [ l EXCEPT !.flag[platform] = TRUE,
                    !.promises =
                        Append(@, [platform |-> platform, script |-> 0, resolved |-> TRUE]) ]
    ELSE [ l EXCEPT !.scripts = Append(@, [platform |-> platform, fired |-> FALSE]),
                    !.promises =
                        Append(@, [ platform |-> platform, script |-> Len(l.scripts) + 1,
                                    resolved |-> FALSE ]) ]

LoaderInit ==
    /\ Construct(16, 0, Breakpoints(defaultColumnConfig), 0, EmptyMap)
    /\ call = NoCall
    /\ debounced = NoDebounce
    /\ component = NoComponent
    /\ \E twttr \in BOOLEAN, instgrm \in BOOLEAN : loader = ModuleLoaded(twttr, instgrm)

\* const loadTwitterScript = (): Promise<void> => { ... }
loadTwitterScript ==
    /\ loader.loaded
    /\ Len(loader.promises) < MaxLoads
    /\ loader' = LoadScript(loader, "twitter")
    /\ UNCHANGED << engine, call, debounced, component >>

\* const loadInstagramScript = (): Promise<void> => { ... }
loadInstagramScript ==
    /\ loader.loaded
    /\ Len(loader.promises) < MaxLoads
    /\ loader' = LoadScript(loader, "instagram")
    /\ UNCHANGED << engine, call, debounced, component >>

\* Script s has been fetched and run, and its onload handler runs:
\* twitterScriptLoaded = true (instagramScriptLoaded = true); resolve()
ScriptOnload(s) ==
    /\ loader.loaded
    /\ s \in 1 .. Len(loader.scripts)
    /\ ~loader.scripts[s].fired
    /\ loader' =
          [ loader EXCEPT
              !.scripts[s].fired = TRUE,
              !.global[loader.scripts[s].platform] = TRUE,
              !.flag[loader.scripts[s].platform] = TRUE,
              !.promises = [ p \in DOMAIN @ |->
                               IF @[p].script = s THEN [@[p] EXCEPT !.resolved = TRUE]
                               ELSE @[p] ] ]
    /\ UNCHANGED << engine, call, debounced, component >>

LoaderNext ==
    \/ loadTwitterScript
    \/ loadInstagramScript
    \/ \E s \in 1 .. MaxLoads : ScriptOnload(s)

LoaderSpec == LoaderInit /\ [][LoaderNext]_vars


(***************************************************************************)
(* Properties of one calculate call, read off the loop's iterations.       *)
(***************************************************************************)
Steps == 1 .. Len(trace)
Columns(e) == 0 .. Len(e.before.arr) - 1
InColumn(e) == e.column \in Columns(e)
RunningHeight(heights, c) == heights.arr[c + 1]

\* The entry of the position map is the one the last iteration with that
\* identifier wrote.
IsLastFor(i) == \A j \in Steps : j > i => trace[j].id # trace[i].id

\* C1: every post goes to a column whose running height at that moment is
\* the minimum over all columns, the lowest-index one among those tied at
\* the minimum; with k >= 1 columns the index lies in 0..k-1, and it is the
\* column the position map reports.
C1_ShortestLowestIndex ==
    outcome = "returned" =>
        LET k == ColumnCount IN
        \A i \in Steps :
            LET e == trace[i] IN
            /\ Len(e.before.arr) = k
            /\ k >= 1 =>
                 /\ e.column \in 0 .. k - 1
                 /\ \A c \in Columns(e) :
                       /\ RunningHeight(e.before, c) >= RunningHeight(e.before, e.column)
                       /\ c < e.column =>
                            RunningHeight(e.before, c) > RunningHeight(e.before, e.column)
            /\ IsLastFor(i) => state.positions[e.id].column = e.column

\* A tie at the minimum between two columns other than the first pair of an
\* empty layout, resolved to the lower index, in a layout of three posts.
C1_Witness ==
    /\ outcome = "returned"
    /\ Len(trace) = 3
    /\ \E i \in Steps :
          LET e == trace[i] IN
          /\ Len(e.before.arr) = 3
          /\ e.column = 1
          /\ RunningHeight(e.before, 2) = RunningHeight(e.before, 1)
          /\ RunningHeight(e.before, 0) > RunningHeight(e.before, 1)

\* Two spans share an interval of positive length.
Overlap(y1, h1, y2, h2) ==
    LET lo == IF y1 >= y2 THEN y1 ELSE y2
        hi == IF y1 + h1 <= y2 + h2 THEN y1 + h1 ELSE y2 + h2
    IN  lo < hi

\* The position the map holds for the post of iteration i.
Placed(i) == state.positions[trace[i].id]

\* Iterations i before j whose posts both have their own entry in the
\* position map, in the same column.
SameColumn(i, j) ==
    /\ i < j
    /\ IsLastFor(i) /\ IsLastFor(j)
    /\ Placed(i).column \in 0 .. Len(state.columnHeights.arr) - 1
    /\ Placed(i).column = Placed(j).column

\* C2 as stated: posts of one column never overlap, and the earlier post
\* has the smaller top offset, whatever the configuration.
C2_NoOverlapAlways ==
    outcome = "returned" =>
        \A i, j \in Steps :
            SameColumn(i, j) =>
                /\ ~Overlap(Placed(i).y.n, Placed(i).height,
                            Placed(j).y.n, Placed(j).height)
                /\ Placed(i).y.n < Placed(j).y.n

\* C2 as amended: with gap >= 0 and every resolved height >= 0, a later post
\* of a column starts at or below the bottom of every earlier post of that
\* column plus the gap; the spans share no interval of positive length, and
\* the earlier post's top offset is the smaller one, or equal when its
\* height and the gap are both 0.
C2_NoOverlapNonNegative ==
    (/\ outcome = "returned"
     /\ options.gap >= 0
     /\ \A i \in Steps : trace[i].height >= 0) =>
        \A i, j \in Steps :
            SameColumn(i, j) =>
                /\ Placed(j).y.n >= Placed(i).y.n + Placed(i).height + options.gap
                /\ ~Overlap(Placed(i).y.n, Placed(i).height,
                            Placed(j).y.n, Placed(j).height)
                /\ Placed(i).y.n <= Placed(j).y.n
                /\ (Placed(i).height + options.gap > 0) => Placed(i).y.n < Placed(j).y.n

\* Three posts in one column, with a positive gap between them.
C2_Witness ==
    /\ outcome = "returned"
    /\ options.gap > 0
    /\ Len(trace) = 3
    /\ \A i \in Steps : Placed(i).column = 0 /\ Placed(i).height > 0
    /\ SameColumn(1, 2) /\ SameColumn(2, 3)
    /\ Placed(3).y.n > Placed(2).y.n

\* The sum of height + gap over the iterations before i that chose column c.
RECURSIVE SumBefore(_, _)
SumBefore(i, c) ==
    IF i <= 1 THEN 0
    ELSE SumBefore(i - 1, c)
         + (IF trace[i - 1].column = c THEN trace[i - 1].height + options.gap ELSE 0)

\* C3: the top offset of a post is the running height of its column when it
\* is placed, which is the sum of height + gap over the earlier posts of
\* that column; placing it moves that column's running height to
\* y + height + gap and leaves the other columns' running heights alone.
\* The position map reports that offset and the resolved height.
C3_OffsetIsRunningHeight ==
    outcome = "returned" =>
        \A i \in Steps :
            LET e == trace[i] IN
            InColumn(e) =>
                /\ e.y = Fin(RunningHeight(e.before, e.column))
                /\ e.y = Fin(SumBefore(i, e.column))
                /\ RunningHeight(e.after, e.column) = e.y.n + e.height + options.gap
                /\ Len(e.after.arr) = Len(e.before.arr)
                /\ \A c \in Columns(e) :
                      c # e.column => RunningHeight(e.after, c) = RunningHeight(e.before, c)
                /\ i < Len(trace) => trace[i + 1].before = e.after
                /\ i = Len(trace) => state.columnHeights = e.after
                /\ IsLastFor(i) =>
                     /\ state.positions[e.id].y = e.y
                     /\ state.positions[e.id].height = e.height

\* A post placed below two earlier posts of its column, in a layout with
\* another column in use.
C3_Witness ==
    /\ outcome = "returned"
    /\ \E i \in Steps :
          /\ InColumn(trace[i])
          /\ trace[i].y.n > 0
          /\ trace[i].y.n = SumBefore(i, trace[i].column)
          /\ \E j \in Steps : j < i /\ trace[j].column # trace[i].column

\* C4: containerHeight is max(0, M - gap), M the largest final running
\* height: it is never negative, it is no less than any column's running
\* height minus the gap, and it is either 0 or one column's running height
\* minus the gap.  Without columns it is 0.
C4_ContainerHeight ==
    outcome = "returned" =>
        LET arr == state.columnHeights.arr
            h == state.containerHeight
        IN  /\ h >= 0
            /\ \A c \in 1 .. Len(arr) : h >= arr[c] - options.gap
            /\ \/ h = 0
               \/ \E c \in 1 .. Len(arr) : h = arr[c] - options.gap

\* The taller of two unequal columns decides a positive container height.
C4_Witness ==
    /\ outcome = "returned"
    /\ Len(state.columnHeights.arr) = 2
    /\ state.columnHeights.arr[1] < state.columnHeights.arr[2]
    /\ state.containerHeight = state.columnHeights.arr[2] - options.gap
    /\ state.containerHeight > 0
    /\ options.gap > 0

\* C5: columnWidth is (containerWidth - 2*padding - gap*(columnCount-1)) /
\* columnCount, not clamped (a division by 0 columns gives Infinity,
\* -Infinity or NaN), and every position has that width.
C5_UniformWidth ==
    outcome = "returned" =>
        LET k == ColumnCount
            numerator == options.containerWidth - 2 * options.padding
                         - options.gap * (k - 1)
            w == state.columnWidth
        IN  /\ k # 0 => /\ w.t = "fin"
                        /\ w.d > 0
                        /\ w.n * k = numerator * w.d
            /\ k = 0 => w = (IF numerator > 0 THEN PosInfinity
                             ELSE IF numerator < 0 THEN NegInfinity ELSE NaN)
            /\ \A id \in DOMAIN state.positions : state.positions[id].width = w

\* Posts of both platforms and of different heights, in columns of a
\* negative width that is no integer.
C5_Witness ==
    /\ outcome = "returned"
    /\ state.columnWidth.t = "fin"
    /\ state.columnWidth.n < 0
    /\ state.columnWidth.d > 1
    /\ \E id1, id2 \in DOMAIN state.positions :
          /\ state.positions[id1].height # state.positions[id2].height
          /\ state.positions[id1].width = state.positions[id2].width


\* The default height of a platform for the engine as it was built: the
\* embed height the constructor was given, or 500 / 600.
ConfiguredDefault(platform) ==
    IF platform = "twitter"
    THEN (IF "twitterHeight" \in DOMAIN embedGiven
          THEN embedGiven["twitterHeight"] ELSE DEFAULT_TWITTER_HEIGHT)
    ELSE (IF "instagramHeight" \in DOMAIN embedGiven
          THEN embedGiven["instagramHeight"] ELSE DEFAULT_INSTAGRAM_HEIGHT)

\* C17: every post is laid out with the entry the height map has for its
\* identifier (0 included) and, without an entry, with the default height
\* of its platform: the configured embed height, or 500 for twitter and 600
\* for instagram.  The position map reports that height, and a call on
\* zero or more columns returns whether or not heights are missing.
C17_EntryOrPlatformDefault ==
    /\ (outcome # "none" /\ ColumnCount >= 0) => outcome = "returned"
    /\ outcome = "returned" =>
          /\ Len(trace) = Len(calcArgs.posts)
          /\ \A i \in Steps :
                LET post == calcArgs.posts[i]
                    id == PostId(post)
                    expected == IF id \in DOMAIN calcArgs.itemHeights
                                THEN calcArgs.itemHeights[id]
                                ELSE ConfiguredDefault(post.platform)
                IN  /\ trace[i].id = id
                    /\ trace[i].height = expected
                    /\ IsLastFor(i) => state.positions[id].height = expected

\* One layout with an entry of 0 and the configured heights of both
\* platforms.
C17_Witness ==
    /\ outcome = "returned"
    /\ DOMAIN embedGiven = {"twitterHeight", "instagramHeight"}
    /\ DOMAIN calcArgs.itemHeights = {"a"}
    /\ DOMAIN state.positions = {"a", "b", "tw-1"}
    /\ state.positions["a"].height = 0
    /\ state.positions["b"].height = embedGiven["instagramHeight"]
    /\ state.positions["tw-1"].height = embedGiven["twitterHeight"]

\* C20: every position's left offset is padding + column * (columnWidth +
\* gap) for its column index: for a finite column width n/d, the fraction
\* (padding * d + column * (n + gap * d)) / d; without columns, where the
\* index is -1 and the width Infinity, -Infinity or NaN, what that
\* expression gives.  Positions of one column have one left offset.
C20_LeftOffset ==
    outcome = "returned" =>
        LET w == state.columnWidth
            pitch == w.n + options.gap * w.d
        IN  /\ \A id \in DOMAIN state.positions :
                  LET p == state.positions[id] IN
                  /\ w.t = "fin" =>
                        /\ p.x.t = "fin"
                        /\ p.x.n * w.d = (options.padding * w.d + p.column * pitch) * p.x.d
                  /\ w.t # "fin" =>
                        /\ p.column = -1
                        /\ p.x = (IF w = PosInfinity THEN NegInfinity
                                  ELSE IF w = NegInfinity THEN PosInfinity ELSE NaN)
            /\ \A id1, id2 \in DOMAIN state.positions :
                  state.positions[id1].column = state.positions[id2].column =>
                      state.positions[id1].x = state.positions[id2].x

\* Three columns in use, of a width that is no integer, with padding and
\* gap, and three different left offsets.
C20_Witness ==
    /\ outcome = "returned"
    /\ options.padding > 0 /\ options.gap > 0
    /\ state.columnWidth.t = "fin" /\ state.columnWidth.d > 1
    /\ DOMAIN state.positions = {"a", "b", "tw-1"}
    /\ {state.positions[id].column : id \in DOMAIN state.positions} = {0, 1, 2}
    /\ Cardinality({state.positions[id].x : id \in DOMAIN state.positions}) = 3

(***************************************************************************)
(* Properties of an engine over its life.                                  *)
(***************************************************************************)
\* C6: calculate called again on the post list, height map and container
\* width of the call before it ends the same way and stores and returns the
\* same LayoutState (positions, column heights, container height, column
\* width), and runs through the same iterations.
C6_Idempotent ==
    [][ \A posts \in FeedWindows :
            (calculate(posts) /\ SameArgs(posts)) =>
                /\ outcome' = outcome
                /\ state' = state
                /\ returned' = returned
                /\ trace' = trace ]_vars

\* A repeated call that laid out posts in columns of negative width.
C6_Witness ==
    /\ calcArgs.repeated
    /\ outcome = "returned"
    /\ Len(trace) >= 2
    /\ state.columnWidth.t = "fin"
    /\ state.columnWidth.n < 0

\* The default height of a platform.
PlatformDefault(platform) ==
    IF platform = "twitter" THEN DEFAULT_TWITTER_HEIGHT ELSE DEFAULT_INSTAGRAM_HEIGHT

\* C7: after a calculate that follows any updateItemHeight calls, every
\* post's position has the height most recently set for its identifier, or
\* the default of its platform when none was ever set.
C7_LastWriteWins ==
    (outcome = "returned" /\ calcArgs.itemHeights = options.itemHeights) =>
        LET posts == calcArgs.posts IN
        \A i \in 1 .. Len(posts) :
            LET id == PostId(posts[i]) IN
            (\A j \in i + 1 .. Len(posts) : PostId(posts[j]) # id) =>
                /\ id \in DOMAIN state.positions
                /\ state.positions[id].height =
                       IF id \in DOMAIN lastSet THEN lastSet[id]
                       ELSE PlatformDefault(posts[i].platform)

\* Two identifiers with different heights set, and a third post at its
\* default, in one layout.
C7_Witness ==
    /\ outcome = "returned"
    /\ calcArgs.itemHeights = options.itemHeights
    /\ DOMAIN state.positions = {"a", "b", "tw-1"}
    /\ DOMAIN lastSet = {"a", "tw-1"}
    /\ state.positions["a"].height = 1
    /\ state.positions["tw-1"].height = 0
    /\ state.positions["b"].height = DEFAULT_INSTAGRAM_HEIGHT

AllIds == {PostId(post) : post \in PostUniverse} \cup HeightIds

C14_ColumnCountFollowsWidth ==
    /\ [](LayoutEngine_getColumnCount = getColumnCount(options.columns, widthGiven))
    /\ [][ \A posts \in FeedWindows :
               (calculate(posts) /\ outcome' = "returned") =>
                   LET k == getColumnCount(options.columns, widthGiven) IN
                   /\ Len(state'.columnHeights.arr) = k
                   /\ state'.columnWidth =
                          JsDiv(widthGiven - 2 * options.padding - options.gap * (k - 1), k)
                   /\ calcArgs'.containerWidth = widthGiven ]_vars

\* A width set after a layout: the column count is already that of the new
\* width while the stored layout still has the old number of columns.
C14_Witness ==
    /\ outcome = "returned"
    /\ widthGiven # calcArgs.containerWidth
    /\ LayoutEngine_getColumnCount = 3
    /\ Len(state.columnHeights.arr) = 1
    /\ DOMAIN state.positions # {}

\* C18: the height map holds exactly what the constructor and
\* updateItemHeight put there, the last value for each identifier, however
\* many calculate and setContainerWidth calls came in between; calculate
\* changes nothing of the options (height map, container width,
\* configuration), and setContainerWidth nothing of the height map.
C18_CalculateOnlyReads ==
    /\ [](options.itemHeights = lastSet)
    /\ [][ \A posts \in FeedWindows : calculate(posts) => options' = options ]_vars
    /\ [][ \A width \in EngineWidths :
               setContainerWidth(width) =>
                   options' = [options EXCEPT !.containerWidth = width] ]_vars

\* Two heights still in the map, and in the layout, after at least two
\* calculate calls and a change of width since construction.
C18_Witness ==
    /\ outcome = "returned"
    /\ calcArgs.repeated
    /\ DOMAIN options.itemHeights = {"a", "tw-1"}
    /\ options.itemHeights = lastSet
    /\ options.itemHeights["a"] # options.itemHeights["tw-1"]
    /\ DOMAIN state.positions = {"a", "b", "tw-1"}
    /\ state.positions["a"].height = options.itemHeights["a"]
    /\ state.positions["tw-1"].height = options.itemHeights["tw-1"]

C9_EmptyListReturnsEmpty ==
    (outcome # "none" /\ calcArgs.posts = << >>) =>
        /\ outcome = "returned"
        /\ DOMAIN state.positions = {}
        /\ state.containerHeight = 0

\* C10: calculate never throws, whatever the column count and width.
C10_NeverThrows == outcome # "threw"

(***************************************************************************)
(* Properties of getColumnCount (utils.ts), read off a call that returned. *)
(***************************************************************************)
CountReturned == call.fn = "getColumnCount" /\ call.done
ListCall == CountReturned /\ call.args[1].kind = "list"
CallList == call.args[1].list
CallWidth == call.args[2]

\* The breakpoints the width reaches, those of them with the largest
\* minWidth, and the breakpoints with the smallest minWidth of the list.
Reached == {i \in 1 .. Len(CallList) : CallList[i].minWidth <= CallWidth}
Largest == {i \in Reached : \A j \in Reached : CallList[j].minWidth <= CallList[i].minWidth}
Smallest ==
    {i \in 1 .. Len(CallList) :
        \A j \in 1 .. Len(CallList) : CallList[i].minWidth <= CallList[j].minWidth}
FirstOf(S) == CHOOSE i \in S : \A j \in S : i <= j
LastOf(S) == CHOOSE i \in S : \A j \in S : i >= j

DefaultOrderings == Orderings(defaultColumnConfig)
Example == (320 :> 1) @@ (600 :> 2) @@ (640 :> 2) @@ (1024 :> 3) @@ (1920 :> 4)
ExampleHolds ==
    (CallList \in DefaultOrderings /\ CallWidth \in DOMAIN Example) =>
        call.result = Example[CallWidth]

\* C11 as stated: the result is the column count of the breakpoint with the
\* largest minWidth <= width, whichever breakpoint of the list answers that
\* description, so the order of the list does not matter; the example
\* widths give 1, 2, 2, 3, 4 in every order of the four breakpoints.
C11_LargestReachedAnyOrder ==
    (ListCall /\ Reached # {}) =>
        /\ \A i \in Largest : call.result = CallList[i].columns
        /\ ExampleHolds

\* C11 as amended: the result is the column count of the first listed of
\* the breakpoints with the largest minWidth <= width (width = minWidth
\* counts as reached); when those breakpoints agree on the column count,
\* as they do when all minWidths differ, the order of the list does not
\* matter; the example widths give 1, 2, 2, 3, 4 in every order.
C11_FirstListedLargestReached ==
    (ListCall /\ Reached # {}) =>
        /\ call.result = CallList[FirstOf(Largest)].columns
        /\ (\A i, j \in Largest : CallList[i].columns = CallList[j].columns) =>
               \A i \in Largest : call.result = CallList[i].columns
        /\ ExampleHolds

\* The four breakpoints listed smallest first, at the boundary 600.
C11_Witness ==
    /\ ListCall
    /\ CallList \in DefaultOrderings
    /\ CallList[1].minWidth = 0 /\ CallList[2].minWidth = 1200
    /\ CallWidth = 600
    /\ call.result = 2

\* C12: a fixed column count is returned as it is for every container
\* width, 0 and negative counts included.
C12_NumberUnchanged ==
    (CountReturned /\ call.args[1].kind = "number") =>
        call.result = call.args[1].n

\* A negative count returned for a wide container.
C12_Witness ==
    /\ CountReturned
    /\ call.args[1] = Number(-2)
    /\ CallWidth = 1920
    /\ call.result = -2

\* C13: when the width reaches no breakpoint, the result is the column
\* count of a breakpoint with the smallest minWidth (the last listed of
\* them), and 1 for an empty list.
C13_FallbackSmallest ==
    (ListCall /\ Reached = {}) =>
        IF CallList = << >> THEN call.result = 1
        ELSE call.result = CallList[LastOf(Smallest)].columns

\* No breakpoint reached in a list whose smallest breakpoint comes first
\* and has more than one column.
C13_Witness ==
    /\ ListCall
    /\ Reached = {}
    /\ Len(CallList) >= 2
    /\ Smallest = {1}
    /\ call.result = CallList[1].columns
    /\ call.result > 1

(***************************************************************************)
(* Properties of generatePostId (utils.ts), read off a call that returned. *)
(***************************************************************************)
IdReturned == call.fn = "generatePostId" /\ call.done
CallPost == call.args[1]

\* The status ids and shortcodes a URL is written with.
StatusIdsOf(url) ==
    { id \in StatusIds :
        \E host \in {TwitterCom, XCom}, handle \in Handles, tail \in StatusTails :
            url = TweetUrl(host, handle, id, tail) }
ShortcodesOf(url) ==
    { code \in Shortcodes :
        \E kind \in Kinds, tail \in ShortcodeTails : url = InstagramUrl(kind, code, tail) }

\* Math.abs(hash).toString(36) of five URLs, computed by hand.
KnownHash ==
    (<< >> :> "0")
    @@ ((Https \o XCom \o UserU) :> "452vy6")
    @@ ((Https \o XCom \o << "/", "a", "-", "b" >> \o SlashStatusSlash \o << "1" >>)
            :> "ez29sw")
    @@ ((Https \o InstagramCom \o << "/", "t", "v", "/", "B", "q" >>) :> "gettnh")
    @@ ((Https \o InstagramCom \o << "/", "p", "/", "B", "q" >>) :> "6caivb")

\* C15 as stated: a post with an explicit id gets that id, whatever its
\* platform and URL.
C15_ExplicitIdReturned ==
    (IdReturned /\ CallPost.given) => call.result = CallPost.id

\* C15 as amended: a post with an explicit id other than the empty string
\* gets that id, whatever its platform and URL.
C15_NonEmptyIdReturned ==
    (IdReturned /\ CallPost.given /\ CallPost.id # "") => call.result = CallPost.id

\* "custom-id" returned for a twitter post whose URL has a status id.
C15_Witness ==
    /\ IdReturned
    /\ CallPost.id = "custom-id"
    /\ CallPost.platform = "twitter"
    /\ StatusIdsOf(CallPost.url) # {}
    /\ call.result = "custom-id"

\* C16: a post without id always gets an identifier: "tw-" and the status
\* id for a twitter post whose URL has one, "ig-" and the shortcode for an
\* instagram post whose URL has one, and otherwise that prefix and the hash
\* of the whole URL; a second call on the same post gives the same string.
C16_DerivedId ==
    (IdReturned /\ ~CallPost.given) =>
        LET url == CallPost.url
            ids == IF CallPost.platform = "twitter"
                   THEN StatusIdsOf(url) ELSE ShortcodesOf(url)
            prefix == IF CallPost.platform = "twitter" THEN "tw-" ELSE "ig-"
        IN  /\ \A id \in ids : call.result = prefix \o Str(id)
            /\ ids = {} => call.result = prefix \o hashString(url)
            /\ (ids = {} /\ url \in DOMAIN KnownHash) =>
                   call.result = prefix \o KnownHash[url]
            /\ call.result \notin {"", prefix}
            /\ call.again => call.result = call.before

\* A twitter post whose handle is no \w+, hashed, twice.
C16_Witness ==
    /\ IdReturned
    /\ ~CallPost.given
    /\ CallPost.platform = "twitter"
    /\ call.again
    /\ call.result = "tw-ez29sw"

(***************************************************************************)
(* The worked scenario.                                                    *)
(***************************************************************************)
\* The posts A, B, C of the scenario, in order, with heights 100, 200, 50.
ScenarioCase ==
    /\ outcome = "returned"
    /\ calcArgs.posts = ScenarioPosts
    /\ options.itemHeights = ("a" :> 100) @@ ("b" :> 200) @@ ("tw-1" :> 50)
    /\ options.containerWidth = 1000 /\ options.gap = 16 /\ options.padding = 0
    /\ options.columns = Number(2)

\* C21: with container width 1000, gap 16, padding 0, 2 fixed columns and
\* heights A = 100, B = 200, C = 50 for the posts A, B, C in that order,
\* calculate gives columnWidth 492, A in column 0 at y = 0, B in column 1
\* at y = 0, C in column 0 at y = 116, final running heights 182 and 216,
\* and containerHeight 200.
C21_Scenario ==
    ScenarioCase =>
        /\ state.columnWidth = Fin(492)
        /\ DOMAIN state.positions = {"a", "b", "tw-1"}
        /\ state.positions["a"].column = 0 /\ state.positions["a"].y = Fin(0)
        /\ state.positions["a"].height = 100
        /\ state.positions["b"].column = 1 /\ state.positions["b"].y = Fin(0)
        /\ state.positions["b"].height = 200
        /\ state.positions["tw-1"].column = 0 /\ state.positions["tw-1"].y = Fin(116)
        /\ state.positions["tw-1"].height = 50
        /\ \A id \in DOMAIN state.positions : state.positions[id].width = Fin(492)
        /\ state.columnHeights.arr = << 182, 216 >>
        /\ state.containerHeight = 200
        /\ returned = state

\* The scenario has been laid out, C below A.
C21_Witness ==
    /\ ScenarioCase
    /\ Len(trace) = 3
    /\ trace[3].id = "tw-1" /\ trace[3].column = 0
    /\ trace[3].before.arr = << 116, 216 >>

(***************************************************************************)
(* debounce.                                                               *)
(***************************************************************************)
Invocations == 1 .. Len(debounced.invocations)

\* Calls i and j belong to one burst: every call between them came less
\* than delay after the call before it.
SameBurst(i, j) ==
    LET lo == IF i <= j THEN i ELSE j
        hi == IF i <= j THEN j ELSE i
    IN  \A k \in lo + 1 .. hi :
            debounced.calls[k].at - debounced.calls[k - 1].at < debounced.delay

\* An invocation of fn is for the newest call made, delay or more after
\* that call, with that call's arguments.
ForNewestCall(inv) ==
    /\ inv.latest = inv.call
    /\ inv.at >= debounced.calls[inv.call].at + debounced.delay
    /\ inv.args = debounced.calls[inv.call].args

\* C22: debounce(fn, delay) coalesces bursts: fn is invoked once for the
\* calls of a burst and no more, only after delay has passed since the last
\* call of the burst and with that call's arguments, and never while a
\* newer call is pending.
C22_DebounceCoalesces ==
    debounced.made =>
        \A k \in Invocations :
            /\ ForNewestCall(debounced.invocations[k])
            /\ \A j \in Invocations :
                  j # k => ~SameBurst(debounced.invocations[j].call,
                                      debounced.invocations[k].call)

\* The same for a function fn that does not call the debounced function.
PlainCoalesces ==
    (debounced.made /\ debounced.fn = "plain") => C22_DebounceCoalesces

\* A burst of three calls has been served by one invocation.
PlainBurstServed ==
    /\ debounced.made /\ debounced.fn = "plain"
    /\ Len(debounced.calls) = 3 /\ SameBurst(1, 3)
    /\ Len(debounced.invocations) = 1
    /\ debounced.timers = {}

(***************************************************************************)
(* Properties of the vertical layout for configurations with a column,     *)
(* a gap that is not negative and heights that are not negative.           *)
(***************************************************************************)
Regular ==
    /\ outcome = "returned"
    /\ ColumnCount >= 1
    /\ options.gap >= 0
    /\ \A i \in Steps : trace[i].height >= 0

FinalHeights == state.columnHeights.arr
Tallest == MaxWith(FinalHeights, FinalHeights[1])
Shortest == MinOf(FinalHeights)

\* C23: top offsets are non-decreasing in input order: with at least one
\* column, gap >= 0 and resolved heights >= 0, a post placed later has a
\* top offset no smaller than every post placed before it, since the
\* smallest running column height never decreases; a post that has its own
\* entry in the position map has that offset there.
C23_OffsetsNonDecreasing ==
    Regular =>
        /\ \A i, j \in Steps : i < j => trace[i].y.n <= trace[j].y.n
        /\ \A i \in Steps :
              /\ trace[i].y = Fin(MinOf(trace[i].before.arr))
              /\ MinOf(trace[i].before.arr) <= MinOf(trace[i].after.arr)
              /\ IsLastFor(i) => Placed(i).y = trace[i].y

\* Three posts in two columns: two at the top, the third below, and the
\* smallest running height has grown with the second post.
C23_Witness ==
    /\ Regular
    /\ Len(trace) = 3 /\ Len(FinalHeights) = 2
    /\ trace[1].y.n = 0 /\ trace[2].y.n = 0 /\ trace[3].y.n > 0
    /\ MinOf(trace[2].before.arr) < MinOf(trace[2].after.arr)
    /\ \A i \in Steps : IsLastFor(i)

\* The largest resolved height among the posts laid out (0 for none).
LargestHeight == MaxWith([i \in Steps |-> trace[i].height], 0)

\* C24: greedy balance bound: with at least one column, gap >= 0 and
\* resolved heights >= 0, the largest and the smallest final running column
\* heights differ by no more than the largest resolved height plus the gap,
\* and by 0 when the post list is empty.
C24_BalanceBound ==
    Regular =>
        /\ Tallest - Shortest <= LargestHeight + options.gap
        /\ calcArgs.posts = << >> => Tallest - Shortest = 0

\* Three columns, three posts, and the bound is met with equality: one
\* column has stayed empty below a post of the largest height.
C24_Witness ==
    /\ Regular
    /\ Len(FinalHeights) >= 2 /\ Len(trace) >= 1
    /\ Shortest = 0
    /\ Tallest - Shortest = LargestHeight + options.gap
    /\ LargestHeight > 0 /\ options.gap > 0

\* The last iteration that placed a post in column c.
LastInColumn(i, c) ==
    /\ trace[i].column = c
    /\ \A j \in Steps : j > i => trace[j].column # c

\* C25: the container encloses every item vertically: with at least one
\* column, gap >= 0 and resolved heights >= 0, every post is placed at
\* y >= 0 with y + height <= containerHeight, the entries of the position
\* map included, and y + height = containerHeight for the last item of a
\* tallest column.
C25_ContainerEncloses ==
    Regular =>
        /\ \A i \in Steps :
              /\ 0 <= trace[i].y.n
              /\ trace[i].y.n + trace[i].height <= state.containerHeight
              /\ \A c \in 0 .. Len(FinalHeights) - 1 :
                    (LastInColumn(i, c) /\ RunningHeight(state.columnHeights, c) = Tallest)
                        => trace[i].y.n + trace[i].height = state.containerHeight
        /\ \A id \in DOMAIN state.positions :
              /\ 0 <= state.positions[id].y.n
              /\ state.positions[id].y.n + state.positions[id].height
                     <= state.containerHeight

\* Two columns in use, of different final heights, with a positive gap: the
\* last post of the taller column ends at containerHeight, the last post of
\* the other column above it.
C25_Witness ==
    /\ Regular
    /\ options.gap > 0
    /\ Len(FinalHeights) = 2 /\ Len(trace) = 3
    /\ \E i, j \in Steps :
          /\ LastInColumn(i, 0) /\ LastInColumn(j, 1)
          /\ trace[i].y.n + trace[i].height = state.containerHeight
          /\ trace[j].y.n + trace[j].height < state.containerHeight
          /\ trace[i].y.n > 0

(***************************************************************************)
(* The horizontal extent of the items.                                     *)
(***************************************************************************)
Horizontal ==
    /\ outcome = "returned"
    /\ ColumnCount >= 1
    /\ options.gap >= 0 /\ options.padding >= 0
    /\ options.containerWidth - options.padding * 2
           - options.gap * (ColumnCount - 1) >= 0

\* containerWidth - padding, and x + width of an item of column c as the
\* code's numbers give it.
RightLimit == options.containerWidth - options.padding
RightEdge(c) == DoubleAdd(LeftOffsetDouble(c), ColumnWidthDouble)
AtMost(a, b) == DoubleCompare(a, b) <= 0

\* The exact sum of two doubles, and a and b within tol of each other.
Plus(a, b) == LET at == Align(a, b) IN [m |-> BigAdd(at.a, at.b), e |-> at.e]
Within(a, b, tol) == AtMost(a, Plus(b, tol)) /\ AtMost(b, Plus(a, tol))

\* containerWidth * 2^-50
Tolerance == [m |-> Big(options.containerWidth), e |-> -50]

\* The width the columns share divides without remainder.
DividesEvenly ==
    (options.containerWidth - options.padding * 2
        - options.gap * (ColumnCount - 1)) % ColumnCount = 0

UsedColumns == {state.positions[id].column : id \in DOMAIN state.positions}

\* C26 as stated: with at least one column, gap >= 0, padding >= 0 and
\* columnWidth >= 0, every position has padding <= x and
\* x + width <= containerWidth - padding, and an item of the last column
\* ends exactly at containerWidth - padding.
C26_InsidePaddedContainer ==
    Horizontal =>
        \A c \in UsedColumns :
            /\ AtMost(DoubleOfInt(options.padding), LeftOffsetDouble(c))
            /\ AtMost(RightEdge(c), DoubleOfInt(RightLimit))
            /\ c = ColumnCount - 1 =>
                 DoubleCompare(RightEdge(c), DoubleOfInt(RightLimit)) = 0

\* C26 as amended: under the same conditions padding <= x always; the
\* bound x + width <= containerWidth - padding, with equality in the last
\* column, holds for the exact values, and for the computed doubles when
\* the shared width is a multiple of the column count; otherwise the
\* computed x + width exceeds the bound by no more than containerWidth *
\* 2^-50, and in the last column differs from it by no more than that.
C26_InsideUpToRounding ==
    Horizontal =>
        /\ \A c \in UsedColumns :
              /\ AtMost(DoubleOfInt(options.padding), LeftOffsetDouble(c))
              /\ AtMost(RightEdge(c), Plus(DoubleOfInt(RightLimit), Tolerance))
              /\ c = ColumnCount - 1 =>
                   Within(RightEdge(c), DoubleOfInt(RightLimit), Tolerance)
              /\ DividesEvenly =>
                   /\ AtMost(RightEdge(c), DoubleOfInt(RightLimit))
                   /\ c = ColumnCount - 1 =>
                        DoubleCompare(RightEdge(c), DoubleOfInt(RightLimit)) = 0
        /\ \A id \in DOMAIN state.positions :
              LET p == state.positions[id]
                  right == JsAdd(p.x, p.width)
              IN  /\ p.x.n >= options.padding * p.x.d
                  /\ right.n <= RightLimit * right.d
                  /\ p.column = ColumnCount - 1 => right = Fin(RightLimit)

\* Three posts in the three columns of a container 100 wide with gap 16:
\* the third ends to the right of the container's edge.
C26_Witness ==
    /\ Horizontal
    /\ ColumnCount = 3 /\ UsedColumns = {0, 1, 2}
    /\ ~DividesEvenly
    /\ DoubleCompare(RightEdge(2), DoubleOfInt(RightLimit)) = 1

(***************************************************************************)
(* The first row.                                                          *)
(***************************************************************************)
\* C27: first row fill: with k >= 1 columns and height + gap > 0 for every
\* post, the first min(n, k) posts of a list of n are placed at y = 0 in
\* the columns 0, 1, ..., min(n, k) - 1, in input order, and every later
\* post is placed at y > 0; a post with its own entry in the position map
\* has that column and offset there.
C27_FirstRowFill ==
    (/\ outcome = "returned"
     /\ ColumnCount >= 1
     /\ \A i \in Steps : trace[i].height + options.gap > 0) =>
        \A i \in Steps :
            /\ i <= ColumnCount => trace[i].y = Fin(0) /\ trace[i].column = i - 1
            /\ i > ColumnCount => trace[i].y.n > 0
            /\ IsLastFor(i) =>
                 /\ Placed(i).column = trace[i].column
                 /\ Placed(i).y = trace[i].y

\* Three distinct posts in two columns: the first two fill the row, the
\* third lies below, under a negative gap that the heights outweigh.
C27_Witness ==
    /\ outcome = "returned"
    /\ ColumnCount = 2 /\ Len(trace) = 3
    /\ options.gap < 0
    /\ \A i \in Steps : trace[i].height + options.gap > 0 /\ IsLastFor(i)
    /\ Placed(1).column = 0 /\ Placed(2).column = 1
    /\ Placed(3).y.n > 0

(***************************************************************************)
(* The component's calculateLayout against the engine's calculate.         *)
(***************************************************************************)
BothRan == call.fn = "calculateLayout" /\ call.done /\ outcome # "none"

\* C28: calculateLayout and LayoutEngine.calculate (padding 0, default
\* embed heights), run on the same posts, column count, gap, width and
\* height map, give every post the same column, the same top offset y and
\* the same height, and the same containerHeight; both throw for a
\* negative column count.  (Their widths and x offsets are computed
\* differently.)
C28_SameVerticalLayout ==
    BothRan =>
        /\ (call.result.outcome = "threw") <=> (outcome = "threw")
        /\ outcome = "returned" =>
             /\ DOMAIN call.result.positions = DOMAIN state.positions
             /\ \A id \in DOMAIN state.positions :
                   /\ call.result.positions[id].id = state.positions[id].id
                   /\ call.result.positions[id].column = state.positions[id].column
                   /\ call.result.positions[id].y = state.positions[id].y
                   /\ call.result.positions[id].height = state.positions[id].height
             /\ call.result.containerHeight = state.containerHeight

\* Two columns in a container 2000 wide, three posts, one of them without
\* a measured height: the layouts agree vertically, while the component
\* caps the width at 550 and centers the grid.
C28_Witness ==
    /\ BothRan /\ outcome = "returned"
    /\ Len(state.columnHeights.arr) = 2
    /\ Cardinality(DOMAIN state.positions) = 3
    /\ DOMAIN options.itemHeights # DOMAIN state.positions
    /\ call.result.containerHeight = state.containerHeight
    /\ state.containerHeight > 0
    /\ \A id \in DOMAIN state.positions :
          /\ call.result.positions[id].y = state.positions[id].y
          /\ call.result.positions[id].x # state.positions[id].x
          /\ call.result.positions[id].width # state.positions[id].width

(***************************************************************************)
(* Height reports in the component.                                        *)
(***************************************************************************)
Settled == component.mounted /\ component.queue = << >>

HeightUpdates ==
    { i \in 1 .. Len(component.queue) : component.queue[i].target = "itemHeights" }

\* C29: no height report is lost: whatever the order in which the embeds'
\* observers call handleHeightChange between renders, once every queued
\* update has been applied the itemHeights map holds, for every post that
\* reported, the last height reported for it and nothing else, and the
\* layout (computed when the container has a width) gives each such post
\* that height; a height <= 0 is never handed to handleHeightChange.
C29_NoReportLost ==
    component.mounted =>
        /\ ApplyUpdates(component, component.queue).itemHeights = component.reported
        /\ Settled => component.itemHeights = component.reported
        /\ (Settled /\ component.containerWidth # 0) =>
              \A id \in Embeds :
                  /\ id \in DOMAIN component.layout.positions
                  /\ id \in DOMAIN component.reported =>
                       component.layout.positions[id].height = component.reported[id]
        /\ \A id \in DOMAIN component.reported : component.reported[id] > 0
        /\ \A i \in HeightUpdates : component.queue[i].height > 0
        /\ \A id \in DOMAIN component.itemHeights : component.itemHeights[id] > 0

\* One render has applied three reports of the two embeds, the later
\* report of one embed replacing its earlier one; an observer has also
\* seen a height of 0; the layout has the two posts at the heights last
\* reported, which differ.
C29_Witness ==
    /\ Settled /\ component.containerWidth # 0
    /\ component.batch = Embeds /\ Cardinality(Embeds) = 2
    /\ component.applied = 3
    /\ component.ignored
    /\ component.reported = ("a" :> 300) @@ ("b" :> 400)
    /\ \A id \in Embeds :
          component.layout.positions[id].height = component.reported[id]

(***************************************************************************)
(* The widget scripts.                                                     *)
(***************************************************************************)
ScriptsOf(platform) ==
    { s \in 1 .. Len(loader.scripts) : loader.scripts[s].platform = platform }

\* C30: the widget script is injected at most once per platform: however
\* many embeds call loadTwitterScript or loadInstagramScript, and in
\* whatever order the calls and the onload events come, several calls
\* before the first onload included, document.head gets at most one script
\* element per platform.
C30_ScriptInjectedOnce ==
    loader.loaded =>
        \A platform \in Platforms : Cardinality(ScriptsOf(platform)) <= 1

\* What does hold: once a platform's flag is set no further script is
\* appended for it, and a promise is resolved exactly when it needed no
\* script or its own script's onload has fired.
OncePerLoadedFlag ==
    loader.loaded =>
        /\ \A platform \in Platforms :
              (loader.global[platform] /\ ScriptsOf(platform) = {})
                  => \A p \in DOMAIN loader.promises :
                        loader.promises[p].platform = platform
                            => loader.promises[p].resolved
        /\ \A p \in DOMAIN loader.promises :
              loader.promises[p].resolved <=>
                  \/ loader.promises[p].script = 0
                  \/ loader.scripts[loader.promises[p].script].fired

=============================================================================
